---- MODULE Spec2Model ----
(***************************************************************************)
(* csv-chatbot backend: the HTTP handlers of backend/main.py over the      *)
(* chat_sessions / chat_messages tables of backend/database.py, and        *)
(* process_query of backend/agent.py over the process-wide conversation    *)
(* registry.                                                               *)
(*                                                                         *)
(* POST /query is cut at the places where another request can be served    *)
(* between two of its statements: at each database commit and at each      *)
(* await of agent.py.  POST /upload and DELETE /session/{id} write in one   *)
(* commit that succeeds only if what the handler looked up before still    *)
(* holds at the commit, so each is one step at its commit, or a rollback.  *)
(*                                                                         *)
(* Text is a sequence of lines (a '\n'.join is a concatenation); a line is *)
(* a record so that formatted lines and literal lines compare.             *)
(*                                                                         *)
(* The tools of create_dataframe_tools (agent.py:27-319) are operators     *)
(* over a dataset: what a tool's code does is a value returned or an       *)
(* exception raised, and the tool's except turns the latter into an error  *)
(* envelope.  ToolSpec is one run of the agent making tool calls;          *)
(* RestartSpec is the service started on a database that holds rows;       *)
(* RunSpec is one run of the agent yielding events of every shape;         *)
(* FallbackSpec is process_query failing on queries of every kind.         *)
(***************************************************************************)
EXTENDS Integers, Sequences, FiniteSets, TLC

\* ------------------------------------------------------------------ bounds
NumProcs == 2      \* POST /query requests in flight at the same time
NumIds == 2        \* distinct session ids clients and uuid4 draw from
MaxMsgs == 2       \* message rows ever inserted in one behaviour
MaxToolCalls == 1  \* tool calls the agent makes in one run
MaxEvents == 2     \* events the runner yields in one run

Procs == 1..NumProcs
SessionIds == 1..NumIds
NoId == 0          \* session_id: str = None (or ""), main.py:74,78

\* ------------------------------------------------------------- text values
Line(k, a, n, l) == [k |-> k, a |-> a, n |-> n, l |-> l]
Lit(s) == Line("lit", s, 0, <<>>)
Text(s) == << Lit(s) >>
EmptyText == <<>>

\* '\n'.join(parts), agent.py:569,588,598
RECURSIVE JoinLines(_)
JoinLines(parts) ==
    IF parts = <<>> THEN <<>> ELSE Head(parts) \o JoinLines(Tail(parts))

\* ----------------------------------------------------------- the datasets
\* A cell of the CSV text is a string; read_csv infers a column of integer
\* literals as int64, a column of numbers with empty fields or inf as
\* float64, and any other column as object.
NumLit ==
    ("100" :> 100) @@ ("150" :> 150) @@ ("180" :> 180) @@ ("200" :> 200) @@
    ("250" :> 250) @@ ("1" :> 1) @@ ("2" :> 2) @@ ("3" :> 3) @@ ("4" :> 4) @@ ("5" :> 5) @@
    ("10" :> 10) @@ ("30" :> 30)

Cell(isnum, n, s) == [isnum |-> isnum, n |-> n, s |-> s]
\* an empty field is read as the float NaN, the field inf as the float inf
NaN == Cell(TRUE, 0, "nan")
Inf == Cell(TRUE, 0, "inf")
IsNaN(cell) == cell.isnum /\ cell.s = "nan"
IsInf(cell) == cell.isnum /\ cell.s = "inf"

\* contents of an uploaded file: the lines of the file, each split at ','
CsvEmpty == <<>>
CsvHeaderOnly == << <<"name", "sales">> >>
CsvRagged == << <<"name", "sales">>, <<"A", "100">>, <<"B", "200", "x">> >>
CsvSales == << <<"name", "sales">>, <<"A", "100">>, <<"B", "200">>, <<"A", "150">> >>
CsvUnits == << <<"Units", "Price", "sku">>, <<"100", "180", "k1">>, <<"200", "150", "k2">> >>
\* create_test_csv, test_postgres_integration.py:37-52
CsvTest ==
    << <<"id", "name", "sales", "month">>,
       <<"1", "Product A", "100", "Jan">>, <<"2", "Product B", "200", "Feb">>,
       <<"3", "Product A", "150", "Mar">>, <<"4", "Product B", "250", "Apr">>,
       <<"5", "Product A", "180", "May">> >>
\* a dataset with empty fields and an infinite value
CsvScores ==
    << <<"Team", "score">>, <<"A", "10">>, <<"A", "30">>, <<"B", "">>,
       <<"C", "inf">>, <<"A", "">> >>
\* the files clients upload: UploadFile.filename and the bytes read from it
File(filename, contents) == [filename |-> filename, contents |-> contents]
ValidFiles == { File("data.csv", CsvSales), File("new.csv", CsvUnits) }
InvalidFiles ==
    { File("", CsvSales), File("data.txt", CsvSales), File("data.csv", CsvEmpty),
      File("data.csv", CsvHeaderOnly), File("data.csv", CsvRagged) }
Files == ValidFiles \cup InvalidFiles

\* pd.read_csv(io.BytesIO(contents)), main.py:97.  A data line with more
\* fields than the header is a ParserError.
ReadCsvFails(contents) ==
    \E i \in 2..Len(contents) : Len(contents[i]) > Len(contents[1])

ColumnIsNumeric(contents, c) ==
    \A i \in 2..Len(contents) : contents[i][c] \in DOMAIN NumLit \cup {"", "inf"}
ColumnIsInteger(contents, c) ==
    \A i \in 2..Len(contents) : contents[i][c] \in DOMAIN NumLit

read_csv(contents) ==
    LET header == contents[1]
        ncols == Len(header)
        nrows == Len(contents) - 1
    IN  [columns |-> header,
         dtypes |-> [c \in 1..ncols |->
                        IF nrows > 0 /\ ColumnIsInteger(contents, c) THEN "int64"
                        ELSE IF nrows > 0 /\ ColumnIsNumeric(contents, c) THEN "float64"
                        ELSE "object"],
         data |-> [r \in 1..nrows |->
                     [c \in 1..ncols |->
                        LET field == contents[r + 1][c] IN
                        IF field = "" THEN NaN
                        ELSE IF ~ColumnIsNumeric(contents, c) THEN Cell(FALSE, 0, field)
                        ELSE IF field = "inf" THEN Inf
                        ELSE Cell(TRUE, NumLit[field], "")]]]

\* read_csv over the files clients upload, computed once
ParsedFiles == [c \in {f.contents : f \in Files} \ {CsvEmpty} |-> read_csv(c)]
ReadCsv(contents) == ParsedFiles[contents]

\* df.empty, main.py:101
DfEmpty(df) == Len(df.data) = 0 \/ Len(df.columns) = 0

\* the header line counted as a row
Metadata_CountsHeader(df) ==
    [rows |-> Len(df.data) + 1, columns |-> df.columns, dtypes |-> df.dtypes]

\* main.py:105-109
Metadata(df) ==
    [rows |-> Len(df.data), columns |-> df.columns, dtypes |-> df.dtypes]

\* main.py:60-71: pickle, then gzip; and back
PickleDumps(df) == [pickle |-> df]
PickleLoads(b) == b.pickle
GzipCompress(b) == [gzip |-> b]
GzipDecompress(b) == b.gzip
serialize_dataframe(df) == GzipCompress(PickleDumps(df))
\* a load that reads every column back as object
deserialize_dataframe_LosesDtypes(data) ==
    [PickleLoads(GzipDecompress(data)) EXCEPT
        !.dtypes = [c \in DOMAIN @ |-> "object"]]
deserialize_dataframe(data) == PickleLoads(GzipDecompress(data))

\* filename.endswith('.csv'), main.py:86
EndsWithCsv(filename) == filename \in {"data.csv", "new.csv"}

\* ------------------------------------------------------------- the queries
\* A query is the sequence of its words; its text is one line of them.
QueryMean == <<"What", "is", "the", "Mean", "of", "sales">>
Queries == {QueryMean}
QueryText(q) == << Line("lit", "", 0, q) >>

\* str.lower() on the words that occur in queries and column names
LowerTable ==
    ("What" :> "what") @@ ("Mean" :> "mean") @@ ("Units" :> "units") @@
    ("Price" :> "price") @@ ("Total" :> "total") @@ ("Columns" :> "columns") @@
    ("Sales" :> "sales") @@ ("Name" :> "name") @@ ("Team" :> "team")
Lower(w) == IF w \in DOMAIN LowerTable THEN LowerTable[w] ELSE w

\* k in w, for the keywords the fallback looks for
ProperSubstr == {<<"columns", "column">>, <<"totals", "total">>, <<"summary", "sum">>}
HasSub(w, k) == w = k \/ <<w, k>> \in ProperSubstr

\* k in query.lower(), agent.py:578-600
InQuery(k, q) == \E i \in 1..Len(q) : HasSub(Lower(q[i]), k)

\* ---------------------------------------------- process_query, agent.py:447
CouldNotGenerate ==
    Text("I received your query but couldn't generate a response. Please try rephrasing your question.")

\* The events runner.run_async yields.  attrs: the attributes the event has
\* (hasattr); content and message are the nested objects.
Event(attrs, text, content, message) ==
    [attrs |-> attrs, text |-> text, content |-> content, message |-> message]
Nested(kind, text, parts) == [kind |-> kind, text |-> text, parts |-> parts]
Part(has_text, text) == [has_text |-> has_text, text |-> text]
NoNested == Nested("other", EmptyText, <<>>)

EvText(t) == Event({"text"}, t, NoNested, NoNested)
EvContentStr(t) == Event({"content"}, EmptyText, Nested("str", t, <<>>), NoNested)
EvContentText(t) == Event({"content"}, EmptyText, Nested("text", t, <<>>), NoNested)
EvContentParts(ps) == Event({"content"}, EmptyText, Nested("parts", EmptyText, ps), NoNested)
EvMessageText(t) == Event({"message"}, EmptyText, NoNested, Nested("text", t, <<>>))
EvMessageContentStr(t) == Event({"message"}, EmptyText, NoNested, Nested("content_str", t, <<>>))
EvMessageContentText(t) == Event({"message"}, EmptyText, NoNested, Nested("content_text", t, <<>>))
EvToolCall == Event({"content"}, EmptyText, Nested("parts", EmptyText, <<Part(FALSE, EmptyText)>>), NoNested)

\* agent.py:549-552: the text of the first part that has a text attribute
RECURSIVE FirstPartText(_)
FirstPartText(parts) ==
    IF parts = <<>> THEN EmptyText
    ELSE IF Head(parts).has_text THEN Head(parts).text
    ELSE FirstPartText(Tail(parts))

\* agent.py:538-560
EventText(event) ==
    IF "text" \in event.attrs THEN event.text
    ELSE IF "content" \in event.attrs THEN
        CASE event.content.kind = "str" -> event.content.text
          [] event.content.kind = "text" -> event.content.text
          [] event.content.kind = "parts" -> FirstPartText(event.content.parts)
          [] OTHER -> EmptyText
    ELSE IF "message" \in event.attrs THEN
        CASE event.message.kind = "text" -> event.message.text
          [] event.message.kind = "content_str" -> event.message.text
          [] event.message.kind = "content_text" -> event.message.text
          [] OTHER -> EmptyText
    ELSE EmptyText

\* agent.py:562-565: response_parts over the whole stream
RECURSIVE ResponseParts(_)
ResponseParts(events) ==
    IF events = <<>> THEN <<>>
    ELSE IF EventText(Head(events)) # EmptyText
         THEN <<EventText(Head(events))>> \o ResponseParts(Tail(events))
         ELSE ResponseParts(Tail(events))

\* agent.py:567-574
RunResponse(events) ==
    LET response_parts == ResponseParts(events)
        response_text ==
            IF response_parts = <<>> THEN EmptyText
            ELSE IF Len(response_parts) > 1 THEN JoinLines(response_parts)
            ELSE response_parts[1]
    IN  IF response_text # EmptyText THEN response_text ELSE CouldNotGenerate

\* the event streams the runner yields to the queries in flight
EventStreams ==
    { << EvToolCall, EvContentParts(<<Part(TRUE, Text("The mean of sales is 150.00"))>>) >>,
      << EvText(EmptyText) >> }

\* df.select_dtypes(include=['number']).columns, as column positions
NumericCols(df) ==
    SelectSeq([c \in 1..Len(df.columns) |-> c], LAMBDA c : df.dtypes[c] \in {"int64", "float64"})


\* ------------------------------------- the dataframe tools, agent.py:27-319
\* A float is the fraction num/den; a tool argument that is a value of the
\* data is a cell with its text.
Num(num, den) == [num |-> num, den |-> den]
StrArg(s) == Cell(FALSE, 0, s)
IntArg(n, s) == Cell(TRUE, n, s)

\* what a piece of Python code does: it returns a value or raises
Return(v) == [raised |-> FALSE, exc |-> "", arg |-> "", value |-> v]
Raise(exc, arg) == [raised |-> TRUE, exc |-> exc, arg |-> arg, value |-> <<>>]

\* df[column]: the position of the column, or KeyError(column)
HasColumn(df, column) == \E c \in 1..Len(df.columns) : df.columns[c] = column
ColumnOf(df, column) == CHOOSE c \in 1..Len(df.columns) : df.columns[c] = column

\* the rows of df, and df[df[c] == value]: == between an int64 cell and a
\* str, or between an object cell and a number, is False
AllRows(df) == [r \in 1..Len(df.data) |-> r]
CellEq(cell, value) ==
    /\ ~IsNaN(cell) /\ ~IsNaN(value)
    /\ cell.isnum = value.isnum
    /\ IF cell.isnum
       THEN IsInf(cell) = IsInf(value) /\ (IsInf(cell) \/ cell.n = value.n)
       ELSE cell.s = value.s
\* a filter that keeps every row
RowsWhere_All(df, c, value) == AllRows(df)
RowsWhere(df, c, value) == SelectSeq(AllRows(df), LAMBDA r : CellEq(df.data[r][c], value))

\* filtered_df[column], as the sequence of its cells
Series(df, rows, c) == [i \in 1..Len(rows) |-> df.data[rows[i]][c]]

\* the cells of a series that are not missing, and those that are finite
Valid(xs) == SelectSeq(xs, LAMBDA x : ~IsNaN(x))
Finite(xs) == SelectSeq(xs, LAMBDA x : ~IsNaN(x) /\ ~IsInf(x))
\* the floats nan and inf
NaNValue == Num(0, 0)
InfValue == Num(1, 0)

RECURSIVE SumCells(_)
SumCells(xs) == IF xs = <<>> THEN 0 ELSE Head(xs).n + SumCells(Tail(xs))
MaxCells(xs) == CHOOSE m \in {xs[i].n : i \in 1..Len(xs)} : \A i \in 1..Len(xs) : xs[i].n <= m
MinCells(xs) == CHOOSE m \in {xs[i].n : i \in 1..Len(xs)} : \A i \in 1..Len(xs) : m <= xs[i].n

\* the values of a numeric series in ascending order
RECURSIVE SortCells(_)
SortCells(xs) ==
    IF xs = <<>> THEN <<>>
    ELSE LET m == MinCells(xs)
             i == CHOOSE j \in 1..Len(xs) : xs[j].n = m
         IN  <<m>> \o SortCells(SubSeq(xs, 1, i - 1) \o SubSeq(xs, i + 1, Len(xs)))

\* the median of the cells that are not missing: the infinite ones sort last
MedianCells(xs) ==
    LET s == SortCells(Finite(xs))
        n == Len(Valid(xs))
        lo == (n + 1) \div 2
        hi == n \div 2 + 1
    IN  IF n = 0 THEN NaNValue
        ELSE IF hi > Len(s) THEN InfValue
        ELSE IF lo = hi THEN Num(s[lo], 1)
        ELSE Num(s[lo] + s[hi], 2)

\* float(series.<aggregation>()) for sum, mean, median, count, max, min,
\* which skip the missing cells.  Of no cells the sum is 0 and the mean, the
\* median, the max and the min are nan.  On an object series: sum
\* concatenates the strings and max and min give a string, of which float()
\* is a ValueError; mean and median are a TypeError.
Aggregate(dtype, aggregation, xs) ==
    LET valid == Valid(xs)
        finite == Finite(xs)
        infinite == Len(finite) < Len(valid)
    IN
    IF aggregation = "count" THEN Return(Num(Len(valid), 1))
    ELSE IF dtype \in {"int64", "float64"} THEN
        CASE aggregation = "sum" ->
                Return(IF infinite THEN InfValue ELSE Num(SumCells(finite), 1))
          [] aggregation = "mean" ->
                Return(IF valid = <<>> THEN NaNValue
                       ELSE IF infinite THEN InfValue
                       ELSE Num(SumCells(finite), Len(finite)))
          [] aggregation = "median" -> Return(MedianCells(xs))
          [] aggregation = "max" ->
                Return(IF valid = <<>> THEN NaNValue
                       ELSE IF infinite THEN InfValue
                       ELSE Num(MaxCells(finite), 1))
          [] aggregation = "min" ->
                Return(IF valid = <<>> THEN NaNValue
                       ELSE IF finite = <<>> THEN InfValue
                       ELSE Num(MinCells(finite), 1))
    ELSE IF aggregation \in {"mean", "median"}
        THEN Raise("TypeError", "Could not convert to numeric")
    ELSE IF valid = <<>>
        THEN Return(IF aggregation = "sum" THEN Num(0, 1) ELSE NaNValue)
    ELSE Raise("ValueError", "could not convert string to float")

\* the ':.2f' formats, in hundredths; the texts "nan" and "inf" are below 0
Cents(num, den) == (2 * 100 * num + den) \div (2 * den)
FmtNaN == -1
FmtInf == -2
Fmt2(v) ==
    IF v.den # 0 THEN Cents(v.num, v.den)
    ELSE IF v.num = 0 THEN FmtNaN ELSE FmtInf

\* the body of an "except Exception as e" that lets the exception go on
Catch_Reraises(outcome, prefix) == outcome

\* an except that puts its text under "message"
Catch_ReportsInMessage(outcome, prefix) ==
    IF outcome.raised
    THEN Return([status |-> "error",
                 message |-> Line(prefix, outcome.arg, 0, <<>>)])
    ELSE outcome

\* except Exception as e: return {"status": "error", "error_message":
\* f"<prefix>: {str(e)}"}, agent.py:49-53 and the like; str(e) of a
\* KeyError is the quoted key
Catch(outcome, prefix) ==
    IF outcome.raised
    THEN Return([status |-> "error",
                 error_message |-> Line(prefix, outcome.arg, 0, <<>>)])
    ELSE outcome

\* agent.py:33-53
calculate_mean(df, column) ==
    Catch(IF ~HasColumn(df, column) THEN Raise("KeyError", column)
          ELSE LET c == ColumnOf(df, column)
                   mean_value == Aggregate(df.dtypes[c], "mean", Series(df, AllRows(df), c))
               IN  IF mean_value.raised THEN mean_value
                   ELSE Return([status |-> "success",
                                result |-> mean_value.value,
                                message |-> Line("Mean of", column, Fmt2(mean_value.value), <<>>)]),
          "Error calculating mean")

\* agent.py:55-75
calculate_median(df, column) ==
    Catch(IF ~HasColumn(df, column) THEN Raise("KeyError", column)
          ELSE LET c == ColumnOf(df, column)
                   median_value == Aggregate(df.dtypes[c], "median", Series(df, AllRows(df), c))
               IN  IF median_value.raised THEN median_value
                   ELSE Return([status |-> "success",
                                result |-> median_value.value,
                                message |-> Line("Median of", column, Fmt2(median_value.value), <<>>)]),
          "Error calculating median")

\* "if filter_column and filter_value", agent.py:89: None, "" and 0 are false
NoArg == StrArg("")
Truthy(value) == IF value.isnum THEN value.n # 0 ELSE value.s # ""

\* agent.py:77-106
sum_column(df, column, filter_column, filter_value) ==
    LET filtered == filter_column # "" /\ Truthy(filter_value) IN
    Catch(IF filtered /\ ~HasColumn(df, filter_column) THEN Raise("KeyError", filter_column)
          ELSE IF ~HasColumn(df, column) THEN Raise("KeyError", column)
          ELSE LET c == ColumnOf(df, column)
                   rows == IF filtered
                           THEN RowsWhere(df, ColumnOf(df, filter_column), filter_value)
                           ELSE AllRows(df)
                   sum_value == Aggregate(df.dtypes[c], "sum", Series(df, rows, c))
               IN  IF sum_value.raised THEN sum_value
                   ELSE Return([status |-> "success",
                                result |-> sum_value.value,
                                message |->
                                    IF filtered
                                    THEN Line("Sum of where", column, Fmt2(sum_value.value),
                                              <<filter_column, filter_value.s>>)
                                    ELSE Line("Sum of", column, Fmt2(sum_value.value), <<>>)]),
          "Error calculating sum")

\* the order of str on the strings the tools compare: digits before upper
\* case before lower case
StrRank ==
    ("2024-01-01" :> 1) @@ ("2024-12-31" :> 2) @@ ("A" :> 3) @@ ("Apr" :> 4) @@
    ("B" :> 5) @@ ("C" :> 6) @@ ("Feb" :> 7) @@ ("Jan" :> 8) @@ ("Mar" :> 9) @@
    ("May" :> 10) @@ ("Product A" :> 11) @@ ("Product B" :> 12) @@ ("k1" :> 13) @@
    ("k2" :> 14)

\* agent.py:108-132: >= and <= between an int64 column and a str is a TypeError
filter_by_date_range(df, date_column, start_date, end_date) ==
    Catch(IF ~HasColumn(df, date_column) THEN Raise("KeyError", date_column)
          ELSE LET c == ColumnOf(df, date_column) IN
               IF df.dtypes[c] \in {"int64", "float64"}
               THEN Raise("TypeError", "Invalid comparison between dtype=int64 and str")
               ELSE LET rows == SelectSeq(AllRows(df), LAMBDA r :
                                    /\ StrRank[df.data[r][c].s] >= StrRank[start_date]
                                    /\ StrRank[df.data[r][c].s] <= StrRank[end_date])
                        count == Len(rows)
                    IN  Return([status |-> "success",
                                result |-> count,
                                filtered_records |-> [i \in 1..count |-> df.data[rows[i]]],
                                message |-> Line("Found records in the date range", "", count,
                                                 <<start_date, end_date>>)]),
          "Error filtering by date range")

\* agent.py:134-155
get_dataframe_info(df) ==
    Catch(Return([status |-> "success",
                  result |-> [columns |-> df.columns,
                              rows |-> Len(df.data),
                              dtypes |-> df.dtypes,
                              sample_data |-> SubSeq(df.data, 1,
                                                 IF Len(df.data) < 5 THEN Len(df.data) ELSE 5)],
                  message |-> Line("Dataframe has rows and columns", "", Len(df.data),
                                   df.columns)]),
          "Error getting dataframe info")

\* agent.py:157-196: no try, and nothing in it that fails on a dataframe
get_available_capabilities(df) ==
    Return([status |-> "success",
            agent_type |-> "CSV Data Analysis Agent",
            capabilities |-> 6,
            available_tools |-> 7,
            dataset_info |-> [total_rows |-> Len(df.data),
                              total_columns |-> Len(df.columns),
                              numeric_columns |->
                                  [i \in 1..Len(NumericCols(df)) |-> df.columns[NumericCols(df)[i]]],
                              all_columns |-> df.columns],
            message |-> Lit("I am a specialized CSV Data Analysis Agent. I can help you analyze your uploaded CSV data using various statistical and filtering tools.")])

Aggregations == {"sum", "mean", "count", "max", "min"}
InvalidAggregation ==
    [status |-> "error",
     error_message |-> Lit("Invalid aggregation type. Must be one of: sum, mean, count, max, min")]

\* a lookup that wants the name as the dataset has it
ActualColumn_Exact(df, column) ==
    LET match == {c \in 1..Len(df.columns) : df.columns[c] = column}
    IN  IF match = {} THEN 0 ELSE CHOOSE c \in match : \A d \in match : d <= c

\* agent.py:215-219: the last column whose lower-case name is that of the
\* argument; 0 for None
ActualColumn(df, column) ==
    LET match == {c \in 1..Len(df.columns) : Lower(df.columns[c]) = Lower(column)}
    IN  IF match = {} THEN 0 ELSE CHOOSE c \in match : \A d \in match : d <= c

\* agent.py:221-231
ColumnNotFound(df, column) ==
    [status |-> "error",
     error_message |-> Line("Column not found. Available columns", column, 0, df.columns)]

\* agent.py:260-268: the except of group_by_and_aggregate adds the traceback
CatchDebug(outcome, prefix) ==
    IF outcome.raised
    THEN Return([status |-> "error",
                 error_message |-> Line(prefix, outcome.arg, 0, <<>>),
                 debug |-> outcome.exc])
    ELSE outcome

\* df.groupby(group_col), agent.py:240: the keys are the values of the
\* column that are not missing, in ascending order
CellLess(x, y) ==
    IF x.isnum THEN ~IsInf(x) /\ (IsInf(y) \/ x.n < y.n)
    ELSE StrRank[x.s] < StrRank[y.s]
GroupKeys(df, c) ==
    LET keys == {df.data[r][c] : r \in 1..Len(df.data)} \ {NaN}
        n == Cardinality(keys)
    IN  CHOOSE order \in [1..n -> keys] :
            \A i, j \in 1..n : i < j => CellLess(order[i], order[j])

\* str(group_value), agent.py:246
PyStr(dtype, cell) ==
    IF ~cell.isnum THEN cell.s
    ELSE IF IsInf(cell) THEN "inf"
    ELSE LET digits == CHOOSE d \in DOMAIN NumLit : NumLit[d] = cell.n
         IN  IF dtype = "float64" THEN digits \o ".0" ELSE digits

\* pd.notna(agg_value), agent.py:247: an infinite value is not missing
notna(v) == ~(v.den = 0 /\ v.num = 0)

\* agent.py:198-268
group_by_and_aggregate(df, group_column, aggregate_column, aggregation) ==
    LET group_col == ActualColumn(df, group_column)
        agg_col == ActualColumn(df, aggregate_column)
    IN
    CatchDebug(
        IF group_col = 0 THEN Return(ColumnNotFound(df, group_column))
        ELSE IF agg_col = 0 THEN Return(ColumnNotFound(df, aggregate_column))
        ELSE IF aggregation \notin Aggregations THEN Return(InvalidAggregation)
        ELSE LET keys == GroupKeys(df, group_col)
                 groups == 1..Len(keys)
                 aggregated == [i \in groups |->
                                  Aggregate(df.dtypes[agg_col], aggregation,
                                            Series(df, RowsWhere(df, group_col, keys[i]),
                                                   agg_col))]
                 grouped_data == [i \in groups |->
                                    [group |-> PyStr(df.dtypes[group_col], keys[i]),
                                     value |-> IF notna(aggregated[i].value)
                                               THEN aggregated[i].value ELSE Num(0, 1)]]
             IN  IF \E i \in groups : aggregated[i].raised
                 THEN aggregated[CHOOSE i \in groups : aggregated[i].raised]
                 ELSE Return([status |-> "success",
                              result |-> [g \in {keys[i] : i \in groups} |->
                                            aggregated[CHOOSE i \in groups : keys[i] = g].value],
                              message |-> Line("grouped by", aggregation, 0,
                                               <<df.columns[agg_col], df.columns[group_col]>>),
                              grouped_data |-> grouped_data,
                              summary |-> Line("Found groups", "", Len(grouped_data), <<>>)]),
        "Error in group by and aggregate")

\* agent.py:270-307
filter_and_aggregate(df, filter_column, filter_value, aggregate_column, aggregation) ==
    Catch(IF ~HasColumn(df, filter_column) THEN Raise("KeyError", filter_column)
          ELSE LET rows == RowsWhere(df, ColumnOf(df, filter_column), filter_value) IN
               IF Len(rows) = 0
               THEN Return([status |-> "error",
                            error_message |-> Line("No records found where", filter_column, 0,
                                                   <<filter_value.s>>)])
               ELSE IF aggregation \notin Aggregations THEN Return(InvalidAggregation)
               ELSE IF ~HasColumn(df, aggregate_column) THEN Raise("KeyError", aggregate_column)
               ELSE LET c == ColumnOf(df, aggregate_column)
                        aggregated_value == Aggregate(df.dtypes[c], aggregation, Series(df, rows, c))
                    IN  IF aggregated_value.raised THEN aggregated_value
                        ELSE Return([status |-> "success",
                                     result |-> aggregated_value.value,
                                     message |-> Line("of where", aggregation,
                                                      Fmt2(aggregated_value.value),
                                                      <<aggregate_column, filter_column,
                                                        filter_value.s>>)]),
          "Error in filter and aggregate")

\* ------------------------------------------ the fallback, agent.py:576-603
\* f"Mean of {col}: {df[col].mean():.2f}" and f"Sum of {col}: {df[col].sum():.2f}"
MeanLine(df, c) ==
    Line("mean", df.columns[c],
         Fmt2(Aggregate(df.dtypes[c], "mean", Series(df, AllRows(df), c)).value), <<>>)
SumLine(df, c) ==
    Line("sum", df.columns[c],
         Fmt2(Aggregate(df.dtypes[c], "sum", Series(df, AllRows(df), c)).value), <<>>)

\* a mean for every numeric column, named or not
MeanResults_AllNumeric(q, df) ==
    LET numeric_cols == NumericCols(df)
    IN  [i \in 1..Len(numeric_cols) |-> MeanLine(df, numeric_cols[i])]

\* agent.py:584-586
MeanResults(q, df) ==
    LET numeric_cols == NumericCols(df)
        pick == SelectSeq(numeric_cols,
                    LAMBDA c : InQuery(Lower(df.columns[c]), q) \/ Len(numeric_cols) = 1)
    IN  [i \in 1..Len(pick) |-> MeanLine(df, pick[i])]

\* agent.py:594-596
SumResults(q, df) ==
    LET numeric_cols == NumericCols(df)
        pick == SelectSeq(numeric_cols,
                    LAMBDA c : \/ InQuery(Lower(df.columns[c]), q)
                               \/ InQuery("sales", q) \/ InQuery("revenue", q)
                               \/ Len(numeric_cols) = 1)
    IN  [i \in 1..Len(pick) |-> SumLine(df, pick[i])]

\* the fallback without the "if results" of agent.py:587: an empty join
Fallback_NoResultsCheck(q, df, e) ==
    IF InQuery("mean", q) \/ InQuery("average", q)
        THEN MeanResults(q, df)
    ELSE IF InQuery("sum", q) \/ InQuery("total", q)
        THEN SumResults(q, df)
    ELSE IF InQuery("columns", q) \/ InQuery("column", q)
        THEN << Line("cols", "", Len(df.columns), df.columns) >>
    ELSE << Line("err", e, 0, <<>>) >>

\* agent.py:576-603
Fallback(q, df, e) ==
    IF (InQuery("mean", q) \/ InQuery("average", q)) /\ MeanResults(q, df) # <<>>
        THEN MeanResults(q, df)
    ELSE IF (InQuery("sum", q) \/ InQuery("total", q)) /\ SumResults(q, df) # <<>>
        THEN SumResults(q, df)
    ELSE IF InQuery("columns", q) \/ InQuery("column", q)
        THEN << Line("cols", "", Len(df.columns), df.columns) >>
    ELSE << Line("err", e, 0, <<>>) >>

\* ------------------------------------------------------------------ state
VARIABLES
    sessions,   \* chat_sessions rows, in created_at order (database.py:37-57)
    messages,   \* chat_messages rows, in created_at order (database.py:71-92)
    msgIds,     \* number of chat_messages ids issued so far
    handles,    \* _global_session_service: session id -> conversation handle
    pc,         \* per query in flight: the statement query_data is at
    rq,         \* per query in flight: the request's parameters
    lv,         \* per query in flight: the handler's local variables
    resp        \* the response the last step sent, if it ended a handler

vars == <<sessions, messages, msgIds, handles, pc, rq, lv, resp>>

NoDf == [columns |-> <<>>, dtypes |-> <<>>, data |-> <<>>]
\* class QueryRequest, main.py:39-41
QueryRequest(session_id, query) == [session_id |-> session_id, query |-> query]
NoRq == QueryRequest(NoId, <<>>)
\* df, user_message (the id of its row, once committed) and response
NoLv == [df |-> NoDf, user_message |-> 0, response |-> EmptyText]

\* A response: the status, which JSON body it is, and the keys of that body
\* (the keys the body does not have are left empty).  The constant keys
\* ("message", "storage"), the timestamps and the preview are left out.
NoResp ==
    [status |-> 0, body |-> "", detail |-> "", session_id |-> NoId, query |-> <<>>,
     response |-> EmptyText, filename |-> "", rows |-> 0, columns |-> <<>>,
     dtypes |-> <<>>, items |-> <<>>, message_count |-> 0]
\* raise HTTPException(status_code=status, detail=detail); the detail of a
\* 500 is the handler's prefix and str(e) of what was raised
HTTPException(status, detail) ==
    [NoResp EXCEPT !.status = status, !.body = "error", !.detail = detail]
\* main.py:134-141
UploadResponse(session_id, df) ==
    [NoResp EXCEPT !.status = 200, !.body = "upload", !.session_id = session_id,
                   !.rows = Len(df.data), !.columns = df.columns]
\* main.py:188-193
QueryResponse(session_id, query, response) ==
    [NoResp EXCEPT !.status = 200, !.body = "query", !.session_id = session_id,
                   !.query = query, !.response = response]
\* main.py:260
DeletedResponse == [NoResp EXCEPT !.status = 200, !.body = "deleted"]

NoHandle == [created |-> FALSE, events |-> <<>>]

\* ----------------------------------------------------------- the database
\* db.query(ChatSession).filter(ChatSession.id == sid).first()
HasSession(ss, sid) == \E i \in 1..Len(ss) : ss[i].id = sid
SessionRow(ss, sid) == ss[CHOOSE i \in 1..Len(ss) : ss[i].id = sid]

\* db.query(ChatMessage).filter(ChatMessage.session_id == sid)
MessagesOf(ms, sid) == SelectSeq(ms, LAMBDA m : m.session_id = sid)

ChatSession(id, filename, csv_data, csv_metadata) ==
    [id |-> id, filename |-> filename, csv_data |-> csv_data,
     csv_metadata |-> csv_metadata]
ChatMessage(id, session_id, message_type, content) ==
    [id |-> id, session_id |-> session_id, message_type |-> message_type,
     content |-> content]

\* the column without its ForeignKey: any insert commits
ForeignKeyHolds_Unenforced(ss, sid) == TRUE

\* session_id = Column(String, ForeignKey("chat_sessions.id"), nullable=False):
\* the insert of a message commits only if its session row exists
ForeignKeyHolds(ss, sid) == HasSession(ss, sid)

\* ChatMessage.to_dict / ChatSession.to_dict
MessageDict(m) == m
SessionDict(s, ms) ==
    [id |-> s.id, filename |-> s.filename, metadata |-> s.csv_metadata,
     message_count |-> Len(MessagesOf(ms, s.id))]

Reverse(seq) == [i \in 1..Len(seq) |-> seq[Len(seq) + 1 - i]]

\* ids no row, no request in flight and no conversation handle knows
UnknownIds ==
    {i \in SessionIds :
        /\ ~HasSession(sessions, i)
        /\ ~handles[i].created
        /\ \A p \in Procs : rq[p].session_id # i
        /\ \A k \in 1..Len(messages) : messages[k].session_id # i}

\* Session ids are opaque: of the ids nothing knows yet, the next one to
\* appear (drawn by uuid4, or named by a client) is taken to be the least.
NextId == {i \in UnknownIds : \A j \in UnknownIds : i <= j}
FreshIds == NextId
ClientIds == (SessionIds \ UnknownIds) \cup NextId

Init ==
    /\ sessions = <<>>
    /\ messages = <<>>
    /\ msgIds = 0
    /\ handles = [i \in SessionIds |-> NoHandle]
    /\ pc = [p \in Procs |-> "idle"]
    /\ rq = [p \in Procs |-> NoRq]
    /\ lv = [p \in Procs |-> NoLv]
    /\ resp = NoResp

\* a handler answers: return JSONResponse(...) or raise HTTPException(...)
Answer(r) == resp' = r

\* a step starts once the last response is out
Ready == resp = NoResp

\* a query is taken by the first free slot
Free(p) ==
    /\ Ready
    /\ pc[p] = "idle"
    /\ \A o \in Procs : o < p => pc[o] # "idle"

\* query_data is at label
At(p, label) ==
    /\ Ready
    /\ pc[p] = label

\* query_data ends; the slot is free for the next query
Finish(p, r) ==
    /\ pc' = [pc EXCEPT ![p] = "idle"]
    /\ rq' = [rq EXCEPT ![p] = NoRq]
    /\ lv' = [lv EXCEPT ![p] = NoLv]
    /\ Answer(r)

\* query_data goes on at label
Goto(p, label) ==
    /\ pc' = [pc EXCEPT ![p] = label]
    /\ resp' = NoResp

\* ------------------------------------------------- POST /upload, main.py:73
\* the update of main.py:117-121 without the assignment of line 120
UpsertSession_KeepsMetadata(ss, existing, row) ==
    IF existing
    THEN [i \in 1..Len(ss) |->
            IF ss[i].id = row.id
            THEN [row EXCEPT !.csv_metadata = ss[i].csv_metadata] ELSE ss[i]]
    ELSE Append(ss, row)

\* main.py:122-130 taken whether or not the session exists
UpsertSession_AlwaysInserts(ss, existing, row) == Append(ss, row)

\* main.py:117-130: the row the commit writes
UpsertSession(ss, existing, row) ==
    IF existing
    THEN [i \in 1..Len(ss) |-> IF ss[i].id = row.id THEN row ELSE ss[i]]
    ELSE Append(ss, row)

\* the validation without the df.empty test of main.py:101-102
UploadError_NoEmptyCheck(filename, contents) ==
    IF filename = "" THEN "No file provided"
    ELSE IF ~EndsWithCsv(filename) THEN "File must be a CSV"
    ELSE IF Len(contents) = 0 THEN "File is empty"
    ELSE IF ReadCsvFails(contents) THEN "Invalid CSV file"
    ELSE ""

\* main.py:83-102: the 400 the validation ends in, "" if the file passes
UploadError(filename, contents) ==
    IF filename = "" THEN "No file provided"
    ELSE IF ~EndsWithCsv(filename) THEN "File must be a CSV"
    ELSE IF Len(contents) = 0 THEN "File is empty"
    ELSE IF ReadCsvFails(contents) THEN "Invalid CSV file"
    ELSE IF DfEmpty(ReadCsv(contents)) THEN "CSV file contains no data"
    ELSE ""

\* main.py:76-141: validation, parsing, and the commit of the session row
upload_file(filename, contents, given_id) ==
    /\ Ready
    /\ IF UploadError(filename, contents) # "" THEN
            /\ Answer(HTTPException(400, UploadError(filename, contents)))
            /\ UNCHANGED sessions
       ELSE \E session_id \in (IF given_id = NoId THEN FreshIds ELSE {given_id}) :
            LET df == ReadCsv(contents)
                metadata == Metadata(df)
                csv_data == serialize_dataframe(df)
                existing_session == HasSession(sessions, session_id)
            IN  /\ sessions' = UpsertSession(sessions, existing_session,
                                   ChatSession(session_id, filename, csv_data, metadata))
                /\ Answer(UploadResponse(session_id, df))
    /\ UNCHANGED <<messages, msgIds, handles, pc, rq, lv>>

\* main.py:144-148: the commit raises (the row to update is gone, the id to
\* insert was taken meanwhile, or the database fails); rollback, 500
upload_rollback(filename, contents, given_id) ==
    /\ Ready
    /\ UploadError(filename, contents) = ""
    /\ Answer(HTTPException(500, "Error processing file: commit failed"))
    /\ UNCHANGED <<sessions, messages, msgIds, handles, pc, rq, lv>>

\* -------------------------------------------------- POST /query, main.py:150
\* query_data without the check of main.py:157-158
query_data_NoLookup(p, session_id, query) ==
    /\ Free(p)
    /\ msgIds + Cardinality({o \in Procs : pc[o] = "query_user"}) < MaxMsgs
    /\ Goto(p, "query_user")
    /\ rq' = [rq EXCEPT ![p] = QueryRequest(session_id, query)]
    /\ lv' = [lv EXCEPT ![p] = [NoLv EXCEPT !.df =
                IF HasSession(sessions, session_id)
                THEN deserialize_dataframe(SessionRow(sessions, session_id).csv_data)
                ELSE NoDf]]
    /\ UNCHANGED <<sessions, messages, msgIds, handles>>

\* main.py:155-161: the lookup of the session and the load of its dataset
query_data(p, session_id, query) ==
    LET request == QueryRequest(session_id, query) IN
    /\ Free(p)
    /\ IF ~HasSession(sessions, session_id) THEN
            /\ Answer(HTTPException(404, "No data found for this session. Please upload a CSV file first."))
            /\ UNCHANGED <<pc, rq, lv>>
       ELSE
            /\ msgIds + Cardinality({o \in Procs : pc[o] = "query_user"}) < MaxMsgs
            /\ Goto(p, "query_user")
            /\ rq' = [rq EXCEPT ![p] = request]
            /\ lv' = [lv EXCEPT ![p] = [NoLv EXCEPT !.df =
                        deserialize_dataframe(SessionRow(sessions, session_id).csv_data)]]
    /\ UNCHANGED <<sessions, messages, msgIds, handles>>

\* the new row put first in created_at order
InsertMessage_Oldest(ms, id, session_id, message_type, content) ==
    <<ChatMessage(id, session_id, message_type, content)>> \o ms

\* db.add(message); db.commit(): the row gets the next id and is the newest
InsertMessage(ms, id, session_id, message_type, content) ==
    Append(ms, ChatMessage(id, session_id, message_type, content))

\* main.py:163-170: the user message is committed
query_user_commit(p) ==
    /\ At(p, "query_user")
    /\ msgIds < MaxMsgs
    /\ ForeignKeyHolds(sessions, rq[p].session_id)
    /\ messages' = InsertMessage(messages, msgIds + 1, rq[p].session_id, "user",
                                 QueryText(rq[p].query))
    /\ msgIds' = msgIds + 1
    /\ lv' = [lv EXCEPT ![p].user_message = msgIds + 1]
    /\ Goto(p, "query_agent")
    /\ UNCHANGED <<sessions, handles, rq>>

\* main.py:199-201: the commit of the user message raises (the session row is
\* gone, or the database fails); rollback, 500
query_user_rollback(p) ==
    /\ At(p, "query_user")
    /\ Finish(p, HTTPException(500, "Error: commit failed"))
    /\ UNCHANGED <<sessions, messages, msgIds, handles>>

\* main.py:174 raises: create_agent fails; main.py:194-196
create_agent_raises(p) ==
    /\ At(p, "query_agent")
    /\ Finish(p, HTTPException(500, "Error processing query: create_agent failed"))
    /\ UNCHANGED <<sessions, messages, msgIds, handles>>

\* process_query returns text: back in query_data at main.py:179
Reply(p, text) ==
    /\ lv' = [lv EXCEPT ![p].response = text]
    /\ Goto(p, "query_assistant")

\* agent.py:576-603: an exception e inside process_query
Except(p, e) == Reply(p, Fallback(rq[p].query, lv[p].df, e))

\* main.py:174-177, agent.py:461-505: the agent is built, process_query starts
\* and looks the conversation handle up
pq_get_session(p) ==
    /\ At(p, "query_agent")
    /\ Goto(p, IF handles[rq[p].session_id].created THEN "pq_run" ELSE "pq_create")
    /\ UNCHANGED <<sessions, messages, msgIds, handles, rq, lv>>

\* agent.py:498 raises (or the imports, the App, the Runner before it)
pq_get_session_raises(p) ==
    /\ At(p, "query_agent")
    /\ Except(p, "Exception")
    /\ UNCHANGED <<sessions, messages, msgIds, handles, rq>>

\* a second handle made for an id that has one, in place of the first
CreateSession_Replaces(hs, sid) == [hs EXCEPT ![sid] = [created |-> TRUE, events |-> <<>>]]

\* session_service.create_session, agent.py:507-511: a new handle with no
\* turns for an id that has none; for an id that has one, it raises
\* "already exists" (agent.py:513-515) and the registry stays as it is
CreateSession(hs, sid) ==
    IF hs[sid].created THEN hs
    ELSE [hs EXCEPT ![sid] = [created |-> TRUE, events |-> <<>>]]

\* create_session raising "already exists" handled as any other error
pq_create_session_ConflictFails(p) ==
    /\ At(p, "pq_create")
    /\ IF handles[rq[p].session_id].created
       THEN /\ Except(p, "already exists")
            /\ UNCHANGED handles
       ELSE /\ handles' = CreateSession(handles, rq[p].session_id)
            /\ Goto(p, "pq_run")
            /\ UNCHANGED lv
    /\ UNCHANGED <<sessions, messages, msgIds, rq>>

\* agent.py:506-511: the handle is created and the agent is run;
\* agent.py:512-520: another query created it meanwhile, create_session
\* raises "already exists", and the handle is read once more
pq_create_session(p) ==
    /\ At(p, "pq_create")
    /\ handles' = CreateSession(handles, rq[p].session_id)
    /\ Goto(p, IF handles[rq[p].session_id].created THEN "pq_reget" ELSE "pq_run")
    /\ UNCHANGED <<sessions, messages, msgIds, rq, lv>>

\* agent.py:523-525: create_session raises something else
pq_create_session_raises(p) ==
    /\ At(p, "pq_create")
    /\ Except(p, "Exception")
    /\ UNCHANGED <<sessions, messages, msgIds, handles, rq>>

\* agent.py:516-522: the second get_session; a handle that is still
\* missing is an exception
pq_reget_session(p) ==
    /\ At(p, "pq_reget")
    /\ IF handles[rq[p].session_id].created
       THEN Goto(p, "pq_run") /\ UNCHANGED lv
       ELSE Except(p, "Session creation reported 'already exists' but get_session still returns None")
    /\ UNCHANGED <<sessions, messages, msgIds, handles, rq>>

\* agent.py:516 raises
pq_reget_session_raises(p) ==
    /\ At(p, "pq_reget")
    /\ Except(p, "Exception")
    /\ UNCHANGED <<sessions, messages, msgIds, handles, rq>>

\* agent.py:527-574: the runner runs the agent on the handle, which gets the
\* user turn and the reply turn; the reply is read off the events
pq_run(p, events) ==
    LET sid == rq[p].session_id IN
    /\ At(p, "pq_run")
    /\ handles' = [handles EXCEPT ![sid].events = @ \o <<"user", "model">>]
    /\ Reply(p, RunResponse(events))
    /\ UNCHANGED <<sessions, messages, msgIds, rq>>

\* agent.py:531 raises: the runner, the model or the network fails
pq_run_raises(p) ==
    /\ At(p, "pq_run")
    /\ Except(p, "Exception")
    /\ UNCHANGED <<sessions, messages, msgIds, handles, rq>>

\* main.py:179-193: the assistant message is committed, the reply returned
query_assistant_commit(p) ==
    /\ At(p, "query_assistant")
    /\ msgIds < MaxMsgs
    /\ ForeignKeyHolds(sessions, rq[p].session_id)
    /\ messages' = InsertMessage(messages, msgIds + 1, rq[p].session_id, "assistant",
                                 lv[p].response)
    /\ msgIds' = msgIds + 1
    /\ Finish(p, QueryResponse(rq[p].session_id, rq[p].query, lv[p].response))
    /\ UNCHANGED <<sessions, handles>>

\* the failed commit of the assistant message swallowed, the reply returned
query_assistant_rollback_ReturnsReply(p) ==
    /\ At(p, "query_assistant")
    /\ Finish(p, QueryResponse(rq[p].session_id, rq[p].query, lv[p].response))
    /\ UNCHANGED <<sessions, messages, msgIds, handles>>

\* main.py:194-196: the commit of the assistant message raises; rollback, 500
query_assistant_rollback(p) ==
    /\ At(p, "query_assistant")
    /\ Finish(p, HTTPException(500, "Error processing query: commit failed"))
    /\ UNCHANGED <<sessions, messages, msgIds, handles>>

\* ----------------------------------------- DELETE /session/{id}, main.py:249
\* the relationship without its cascade
CascadeDelete_NoCascade(ms, sid) == ms
\* a delete of the messages without its filter on the session
CascadeDelete_AllMessages(ms, sid) == <<>>

\* cascade="all, delete-orphan", database.py:57: db.delete(session) deletes
\* the session's messages with it
CascadeDelete(ms, sid) == SelectSeq(ms, LAMBDA m : m.session_id # sid)

\* a delete that drops the conversation handle of the session too
delete_session_DropsHandle(session_id) ==
    /\ Ready
    /\ IF ~HasSession(sessions, session_id) THEN
            /\ Answer(HTTPException(404, "Session not found"))
            /\ UNCHANGED <<sessions, messages, handles>>
       ELSE
            /\ messages' = CascadeDelete(messages, session_id)
            /\ sessions' = SelectSeq(sessions, LAMBDA s : s.id # session_id)
            /\ handles' = [handles EXCEPT ![session_id] = NoHandle]
            /\ Answer(DeletedResponse)
    /\ UNCHANGED <<msgIds, pc, rq, lv>>

\* main.py:252-260: the lookup, and the delete of the session and its
\* messages in one commit
delete_session(session_id) ==
    /\ Ready
    /\ IF ~HasSession(sessions, session_id) THEN
            /\ Answer(HTTPException(404, "Session not found"))
            /\ UNCHANGED <<sessions, messages>>
       ELSE
            /\ messages' = CascadeDelete(messages, session_id)
            /\ sessions' = SelectSeq(sessions, LAMBDA s : s.id # session_id)
            /\ Answer(DeletedResponse)
    /\ UNCHANGED <<msgIds, handles, pc, rq, lv>>

\* main.py:261-263: the commit raises (a row to delete is gone, a message
\* written meanwhile references the session, or the database fails)
delete_rollback(session_id) ==
    /\ Ready
    /\ session_id \in SessionIds \ UnknownIds
    /\ Answer(HTTPException(500, "Error deleting session: commit failed"))
    /\ UNCHANGED <<sessions, messages, msgIds, handles, pc, rq, lv>>

\* ------------------------------------------------------------ the read side
\* what GET /session/{id}/info answers in a state, main.py:203-223
SessionInfoResponse(ss, ms, session_id) ==
    IF ~HasSession(ss, session_id)
    THEN HTTPException(404, "Session not found")
    ELSE LET session == SessionRow(ss, session_id) IN
         [NoResp EXCEPT !.status = 200, !.body = "info", !.session_id = session.id,
                        !.filename = session.filename,
                        !.rows = session.csv_metadata.rows,
                        !.dtypes = session.csv_metadata.dtypes,
                        !.columns = session.csv_metadata.columns,
                        !.message_count = Len(MessagesOf(ms, session_id))]

get_session_info(session_id) ==
    /\ Ready
    /\ Answer(SessionInfoResponse(sessions, messages, session_id))
    /\ UNCHANGED <<sessions, messages, msgIds, handles, pc, rq, lv>>

\* the messages of the session listed newest first
ChatMessagesResponse_NewestFirst(ss, ms, session_id) ==
    IF ~HasSession(ss, session_id)
    THEN HTTPException(404, "Session not found")
    ELSE LET rows == Reverse(MessagesOf(ms, session_id)) IN
         [NoResp EXCEPT !.status = 200, !.body = "messages", !.session_id = session_id,
                        !.items = [i \in 1..Len(rows) |-> MessageDict(rows[i])]]

\* what GET /session/{id}/messages answers in a state, main.py:225-238
ChatMessagesResponse(ss, ms, session_id) ==
    IF ~HasSession(ss, session_id)
    THEN HTTPException(404, "Session not found")
    ELSE LET rows == MessagesOf(ms, session_id) IN
         [NoResp EXCEPT !.status = 200, !.body = "messages", !.session_id = session_id,
                        !.items = [i \in 1..Len(rows) |-> MessageDict(rows[i])]]

get_chat_messages(session_id) ==
    /\ Ready
    /\ Answer(ChatMessagesResponse(sessions, messages, session_id))
    /\ UNCHANGED <<sessions, messages, msgIds, handles, pc, rq, lv>>

\* what GET /sessions answers in a state, main.py:240-247:
\* order_by(ChatSession.created_at.desc())
SessionsResponse(ss, ms) ==
    [NoResp EXCEPT !.status = 200, !.body = "sessions",
                   !.items = Reverse([i \in 1..Len(ss) |-> SessionDict(ss[i], ms)])]

list_sessions ==
    /\ Ready
    /\ Answer(SessionsResponse(sessions, messages))
    /\ UNCHANGED <<sessions, messages, msgIds, handles, pc, rq, lv>>

\* the response goes out to the client
send_response ==
    /\ resp # NoResp
    /\ resp' = NoResp
    /\ UNCHANGED <<sessions, messages, msgIds, handles, pc, rq, lv>>

\* no query is in flight
Quiet == \A p \in Procs : pc[p] = "idle"

\* The requests clients send.  The requests that only read, and the requests
\* that fail without a write, are sent while no query is in flight: they
\* read nothing a query in flight writes to its own variables.
Next ==
    \/ send_response
    \/ \E file \in ValidFiles, i \in ClientIds \cup {NoId} :
            upload_file(file.filename, file.contents, i)
    \/ Quiet /\ \E file \in InvalidFiles : upload_file(file.filename, file.contents, NoId)
    \/ Quiet /\ \E file \in InvalidFiles, i \in SessionIds \ UnknownIds :
            upload_file(file.filename, file.contents, i)
    \/ Quiet /\ \E file \in ValidFiles, i \in ClientIds \cup {NoId} :
            upload_rollback(file.filename, file.contents, i)
    \/ \E i \in ClientIds : delete_session(i)
    \/ Quiet /\ \E i \in ClientIds : delete_rollback(i)
    \/ Quiet /\ \E i \in ClientIds : get_session_info(i)
    \/ Quiet /\ \E i \in ClientIds : get_chat_messages(i)
    \/ Quiet /\ list_sessions
    \/ \E p \in Procs :
        \/ \E i \in ClientIds, q \in Queries : query_data(p, i, q)
        \/ query_user_commit(p)
        \/ query_user_rollback(p)
        \/ create_agent_raises(p)
        \/ pq_get_session(p)
        \/ pq_get_session_raises(p)
        \/ pq_create_session(p)
        \/ pq_create_session_raises(p)
        \/ pq_reget_session(p)
        \/ pq_reget_session_raises(p)
        \/ \E events \in EventStreams : pq_run(p, events)
        \/ pq_run_raises(p)
        \/ query_assistant_commit(p)
        \/ query_assistant_rollback(p)

Spec == Init /\ [][Next]_vars

\* The server starts on a database that holds a session and the two messages
\* of a query answered before the start (init_db creates the missing tables
\* and drops nothing); the registry of conversations starts empty.  Message
\* ids count from the start: the rows stored before it have the ids below 1.
RestartInit ==
    /\ sessions = << ChatSession(1, "data.csv", serialize_dataframe(ReadCsv(CsvSales)),
                                 Metadata(ReadCsv(CsvSales))) >>
    /\ messages = << ChatMessage(-1, 1, "user", QueryText(QueryMean)),
                     ChatMessage(0, 1, "assistant", Text("The mean of sales is 150.00")) >>
    /\ msgIds = 0
    /\ handles = [i \in SessionIds |-> NoHandle]
    /\ pc = [p \in Procs |-> "idle"]
    /\ rq = [p \in Procs |-> NoRq]
    /\ lv = [p \in Procs |-> NoLv]
    /\ resp = NoResp

RestartSpec == RestartInit /\ [][Next]_vars

\* ------------------------------------------- the agent's tool calls
\* A tool call the model makes during a run: the tool and its arguments (an
\* argument the tool does not take is left empty).
ToolCall(tool, column, other_column, value, aggregation, start_date, end_date) ==
    [tool |-> tool, column |-> column, other_column |-> other_column, value |-> value,
     aggregation |-> aggregation, start_date |-> start_date, end_date |-> end_date]

\* the arguments the model passes: columns the datasets have, have under
\* another case, or do not have; values that occur, or do not; aggregations
\* the tools know, or do not
ColumnArgs == {"sales", "name", "month", "price", "sku", "score"}
FilterColumnArgs == {"name", "sales", "price"}
AggregateColumnArgs == {"sales", "name", "price", "score"}
GroupColumnArgs == {"name", "month", "price", "team", "Team", "score", "region"}
ValueArgs == {StrArg("Product A"), StrArg("Nobody"), IntArg(100, "100")}
AggregationArgs == Aggregations \cup {"median"}
DateRangeArgs == {<<"2024-01-01", "2024-12-31">>, <<"Feb", "Mar">>}

\* the function call and the function response the runner appends to the
\* conversation of the run, agent.py:531
RecordToolCall(p, call, outcome) ==
    LET sid == rq[p].session_id IN
    /\ Len(handles[sid].events) < MaxToolCalls
    /\ handles' = [handles EXCEPT ![sid].events =
                      Append(@, [call |-> call, raised |-> outcome.raised,
                                 response |-> outcome.value])]
    /\ resp' = NoResp
    /\ UNCHANGED <<sessions, messages, msgIds, pc, rq, lv>>

call_calculate_mean(p, column) ==
    /\ At(p, "pq_run")
    /\ RecordToolCall(p, ToolCall("calculate_mean", column, "", NoArg, "", "", ""),
                   calculate_mean(lv[p].df, column))

call_calculate_median(p, column) ==
    /\ At(p, "pq_run")
    /\ RecordToolCall(p, ToolCall("calculate_median", column, "", NoArg, "", "", ""),
                   calculate_median(lv[p].df, column))

call_sum_column(p, column, filter_column, filter_value) ==
    /\ At(p, "pq_run")
    /\ RecordToolCall(p, ToolCall("sum_column", column, filter_column, filter_value, "", "", ""),
                   sum_column(lv[p].df, column, filter_column, filter_value))

call_filter_by_date_range(p, date_column, start_date, end_date) ==
    /\ At(p, "pq_run")
    /\ RecordToolCall(p, ToolCall("filter_by_date_range", date_column, "", NoArg, "",
                               start_date, end_date),
                   filter_by_date_range(lv[p].df, date_column, start_date, end_date))

call_get_dataframe_info(p) ==
    /\ At(p, "pq_run")
    /\ RecordToolCall(p, ToolCall("get_dataframe_info", "", "", NoArg, "", "", ""),
                   get_dataframe_info(lv[p].df))

call_get_available_capabilities(p) ==
    /\ At(p, "pq_run")
    /\ RecordToolCall(p, ToolCall("get_available_capabilities", "", "", NoArg, "", "", ""),
                   get_available_capabilities(lv[p].df))

call_group_by_and_aggregate(p, group_column, aggregate_column, aggregation) ==
    /\ At(p, "pq_run")
    /\ RecordToolCall(p, ToolCall("group_by_and_aggregate", group_column, aggregate_column,
                               NoArg, aggregation, "", ""),
                   group_by_and_aggregate(lv[p].df, group_column, aggregate_column, aggregation))

call_filter_and_aggregate(p, filter_column, filter_value, aggregate_column, aggregation) ==
    /\ At(p, "pq_run")
    /\ RecordToolCall(p, ToolCall("filter_and_aggregate", filter_column, aggregate_column,
                               filter_value, aggregation, "", ""),
                   filter_and_aggregate(lv[p].df, filter_column, filter_value,
                                        aggregate_column, aggregation))

\* the datasets the tools are made for: create_agent(df), main.py:174
ToolDatasets == {read_csv(CsvTest), read_csv(CsvUnits), read_csv(CsvScores)}

\* A query on a session with one of the datasets is at the run of the agent:
\* the user message is stored, the handle is made and has no turns yet.
ToolInit ==
    \E df \in ToolDatasets :
        /\ sessions = << ChatSession(1, "data.csv", serialize_dataframe(df), Metadata(df)) >>
        /\ messages = << ChatMessage(1, 1, "user", QueryText(QueryMean)) >>
        /\ msgIds = 1
        /\ handles = [i \in SessionIds |->
                         IF i = 1 THEN [created |-> TRUE, events |-> <<>>] ELSE NoHandle]
        /\ pc = [p \in Procs |-> IF p = 1 THEN "pq_run" ELSE "idle"]
        /\ rq = [p \in Procs |-> IF p = 1 THEN QueryRequest(1, QueryMean) ELSE NoRq]
        /\ lv = [p \in Procs |-> IF p = 1 THEN [NoLv EXCEPT !.df = df, !.user_message = 1]
                                           ELSE NoLv]
        /\ resp = NoResp

\* the tool calls of the run
ToolNext ==
    \E p \in Procs :
        \/ \E column \in ColumnArgs : call_calculate_mean(p, column)
        \/ \E column \in ColumnArgs : call_calculate_median(p, column)
        \/ \E column \in AggregateColumnArgs : call_sum_column(p, column, "", NoArg)
        \/ \E column \in AggregateColumnArgs, filter_column \in FilterColumnArgs,
              filter_value \in ValueArgs \cup {NoArg} :
                call_sum_column(p, column, filter_column, filter_value)
        \/ \E date_column \in {"month", "sales", "price"}, range \in DateRangeArgs :
                call_filter_by_date_range(p, date_column, range[1], range[2])
        \/ call_get_dataframe_info(p)
        \/ call_get_available_capabilities(p)
        \/ \E group_column \in GroupColumnArgs, aggregate_column \in AggregateColumnArgs,
              aggregation \in AggregationArgs :
                call_group_by_and_aggregate(p, group_column, aggregate_column, aggregation)
        \/ \E filter_column \in FilterColumnArgs, filter_value \in ValueArgs,
              aggregate_column \in AggregateColumnArgs, aggregation \in AggregationArgs :
                call_filter_and_aggregate(p, filter_column, filter_value,
                                          aggregate_column, aggregation)

ToolSpec == ToolInit /\ [][ToolNext]_vars

\* ------------------------------------------- the events of a run
\* The events a run yields, in the shapes process_query looks at
\* (agent.py:538-560): a text attribute with or without text, a content that
\* is a str, has a text, or has parts of which none, one or several have
\* text, a message in its three shapes, an event with an empty text
\* attribute and a content, and an event with none of the attributes.
TextA == Text("The mean of sales is 150.00")
TextB == Text("The sum of sales is 450.00")
RunEvents ==
    { EvText(TextA), EvText(EmptyText),
      EvContentStr(TextA), EvContentText(TextB),
      EvContentParts(<<Part(TRUE, TextA)>>),
      EvContentParts(<<Part(TRUE, TextA), Part(TRUE, TextB)>>),
      EvContentParts(<<Part(TRUE, EmptyText), Part(TRUE, TextB)>>),
      EvToolCall,
      EvMessageText(TextB), EvMessageContentStr(TextA), EvMessageContentText(TextB),
      Event({"text", "content"}, EmptyText, Nested("str", TextA, <<>>), NoNested),
      Event({}, EmptyText, NoNested, NoNested) }

\* agent.py:531: the runner appends an event to the conversation and yields
\* it to the loop of process_query
pq_run_yield(p, event) ==
    LET sid == rq[p].session_id IN
    /\ At(p, "pq_run")
    /\ Len(handles[sid].events) < MaxEvents
    /\ handles' = [handles EXCEPT ![sid].events = Append(@, event)]
    /\ resp' = NoResp
    /\ UNCHANGED <<sessions, messages, msgIds, pc, rq, lv>>

\* agent.py:567-574: the stream ends, the reply is read off the events
pq_run_return(p) ==
    /\ At(p, "pq_run")
    /\ Reply(p, RunResponse(handles[rq[p].session_id].events))
    /\ UNCHANGED <<sessions, messages, msgIds, handles, rq>>

\* A query is at the run of the agent, as in ToolInit, on the sales dataset.
RunInit ==
    LET df == read_csv(CsvSales) IN
    /\ sessions = << ChatSession(1, "data.csv", serialize_dataframe(df), Metadata(df)) >>
    /\ messages = << ChatMessage(1, 1, "user", QueryText(QueryMean)) >>
    /\ msgIds = 1
    /\ handles = [i \in SessionIds |->
                     IF i = 1 THEN [created |-> TRUE, events |-> <<>>] ELSE NoHandle]
    /\ pc = [p \in Procs |-> IF p = 1 THEN "pq_run" ELSE "idle"]
    /\ rq = [p \in Procs |-> IF p = 1 THEN QueryRequest(1, QueryMean) ELSE NoRq]
    /\ lv = [p \in Procs |-> IF p = 1 THEN [NoLv EXCEPT !.df = df, !.user_message = 1]
                                       ELSE NoLv]
    /\ resp = NoResp

RunNext ==
    \E p \in Procs :
        \/ \E event \in RunEvents : pq_run_yield(p, event)
        \/ pq_run_return(p)

RunSpec == RunInit /\ [][RunNext]_vars

\* ------------------------------------------- the queries that fall back
\* Queries of three words: a word that is or is not one of the mean
\* keywords, one that is or is not a sum or a column keyword, and one that
\* is or is not the name of a column.
FallbackQueries ==
    {<<k1, k2, m>> : k1 \in {"mean", "average", "show"},
                     k2 \in {"sum", "total", "columns", "column", "please"},
                     m \in {"sales", "units", "Price", "revenue", "everything"}}
\* datasets with one numeric column, with two, and with two of which one
\* is named sales
FallbackDatasets == {read_csv(CsvSales), read_csv(CsvUnits), read_csv(CsvTest)}

\* A query on a session with one of the datasets is about to call
\* process_query: the user message is stored, there is no handle yet.
FallbackInit ==
    \E df \in FallbackDatasets, q \in FallbackQueries :
        /\ sessions = << ChatSession(1, "data.csv", serialize_dataframe(df), Metadata(df)) >>
        /\ messages = << ChatMessage(1, 1, "user", QueryText(q)) >>
        /\ msgIds = 1
        /\ handles = [i \in SessionIds |-> NoHandle]
        /\ pc = [p \in Procs |-> IF p = 1 THEN "query_agent" ELSE "idle"]
        /\ rq = [p \in Procs |-> IF p = 1 THEN QueryRequest(1, q) ELSE NoRq]
        /\ lv = [p \in Procs |-> IF p = 1 THEN [NoLv EXCEPT !.df = df, !.user_message = 1]
                                           ELSE NoLv]
        /\ resp = NoResp

\* process_query up to the run, which fails
FallbackNext ==
    \E p \in Procs :
        \/ pq_get_session(p)
        \/ pq_get_session_raises(p)
        \/ pq_create_session(p)
        \/ pq_create_session_raises(p)
        \/ pq_run_raises(p)

FallbackSpec == FallbackInit /\ [][FallbackNext]_vars

\* ============================================================== properties

\* ------------------------------------------------------------------- C1
\* the step of a DELETE /session/{id} that succeeds on the session i
C1_DeleteSucceeds(i) ==
    /\ HasSession(sessions, i)
    /\ resp'.body = "deleted"
    /\ ~HasSession(sessions', i)

\* C1: after DELETE /session/{id} succeeds on an existing session, no message
\* with that session id is left in the store, and GET /session/{id}/messages
\* answers 404 for it.
C1_DeleteCascades ==
    [][\A i \in SessionIds :
        C1_DeleteSucceeds(i) =>
            /\ MessagesOf(messages', i) = <<>>
            /\ ChatMessagesResponse(sessions', messages', i)
                   = HTTPException(404, "Session not found")]_vars

\* a delete has just succeeded on a session that had messages
C1_Witness ==
    /\ resp = DeletedResponse
    /\ Len(messages) < msgIds

\* ------------------------------------------------------------------- C2
\* C2: in every reachable state, under every interleaving of uploads, queries
\* and deletes, the session id of every stored message is the id of a stored
\* session.
C2_MessagesReferenceSessions ==
    \A k \in 1..Len(messages) : HasSession(sessions, messages[k].session_id)

\* a query is about to write its assistant message for a session that was
\* deleted under it, while messages of another session are stored
C2_Witness ==
    /\ messages # <<>>
    /\ \E p \in Procs :
        /\ pc[p] = "query_assistant"
        /\ ~HasSession(sessions, rq[p].session_id)

\* ------------------------------------------------------------------- C3
\* the metadata of every session row describe the dataset in its blob
C3_MetadataOfBlob ==
    \A k \in 1..Len(sessions) :
        sessions[k].csv_metadata = Metadata(deserialize_dataframe(sessions[k].csv_data))

\* the row with id sid is the row an upload of file writes
C3_RowOf(ss, sid, file) ==
    SessionRow(ss, sid) =
        ChatSession(sid, file.filename, serialize_dataframe(ReadCsv(file.contents)),
                    Metadata(ReadCsv(file.contents)))

\* C3: the metadata of a session always describe the dataset its blob
\* deserializes to; a row that stays is changed only by the step of an upload
\* that succeeds for it, which sets blob, metadata and filename together from
\* one file; a failed upload leaves every row as it was.
C3_BlobMetadataConsistent ==
    /\ C3_MetadataOfBlob
    /\ [][/\ C3_MetadataOfBlob'
          /\ \A k \in 1..Len(sessions) :
                LET sid == sessions[k].id IN
                HasSession(sessions', sid) =>
                    \/ SessionRow(sessions', sid) = sessions[k]
                    \/ /\ resp'.body = "upload"
                       /\ resp'.session_id = sid
                       /\ \E file \in ValidFiles : C3_RowOf(sessions', sid, file)]_vars

\* a re-upload has just replaced the dataset of the older of two sessions by
\* the one of new.csv
C3_Witness ==
    /\ resp.body = "upload"
    /\ Len(sessions) = 2
    /\ sessions[1].id = resp.session_id
    /\ sessions[1].filename = "new.csv"
    /\ sessions[1].csv_metadata.columns = CsvUnits[1]

\* ------------------------------------------------------------------- C4
\* C4: an upload that succeeds with the id of an existing session leaves the
\* number of sessions unchanged and replaces that session's blob, metadata
\* and filename; one with a new id, or with none, adds exactly one session;
\* in each case the session_id of the response is the id of the row written,
\* and no other row changes.
C4_UploadUpserts ==
    [][\A file \in ValidFiles, i \in SessionIds \cup {NoId} :
        (/\ resp'.body = "upload"
         /\ resp'.columns = file.contents[1]
         /\ upload_file(file.filename, file.contents, i)) =>
            LET sid == resp'.session_id IN
            /\ i # NoId => sid = i
            /\ i = NoId => ~HasSession(sessions, sid)
            /\ Cardinality({k \in 1..Len(sessions') : sessions'[k].id = sid}) = 1
            /\ C3_RowOf(sessions', sid, file)
            /\ Len(sessions') = Len(sessions) + (IF HasSession(sessions, sid) THEN 0 ELSE 1)
            /\ \A k \in 1..Len(sessions) :
                    sessions[k].id # sid => sessions'[k] = sessions[k]]_vars

\* an upload has just succeeded for the older of two sessions, with data.csv
C4_Witness ==
    /\ resp.body = "upload"
    /\ Len(sessions) = 2
    /\ sessions[1].id = resp.session_id
    /\ sessions[1].filename = "data.csv"
    /\ sessions[2].filename = "new.csv"

\* ------------------------------------------------------------------- C5
\* C5: messages are append-only: a step leaves the stored messages as they
\* are, or appends one message as the newest, or is the step of a DELETE that
\* succeeds on a session and removes exactly the messages of that session.
\* No upload, query or read removes, edits or reorders a message.
C5_MessagesAppendOnly ==
    [][\/ messages' = messages
       \/ /\ Len(messages') = Len(messages) + 1
          /\ SubSeq(messages', 1, Len(messages)) = messages
       \/ \E i \in SessionIds :
            /\ C1_DeleteSucceeds(i)
            /\ messages' = SelectSeq(messages, LAMBDA m : m.session_id # i)]_vars

\* a delete has just removed the messages of one session and left another's
C5_Witness ==
    /\ resp = DeletedResponse
    /\ messages # <<>>
    /\ Len(messages) < msgIds

\* ------------------------------------------------------------------- C6
\* C6: a POST /query whose session id names no stored session answers 404
\* and leaves sessions and messages as they were; no agent is run and no
\* conversation handle is created for that id.
C6_QueryUnknownSession ==
    [][\A p \in Procs, i \in SessionIds, q \in Queries :
        (~HasSession(sessions, i) /\ query_data(p, i, q)) =>
            /\ resp' = HTTPException(404,
                   "No data found for this session. Please upload a CSV file first.")
            /\ UNCHANGED <<sessions, messages, msgIds, handles, pc, rq, lv>>]_vars

\* a query has just been answered 404 while another session is stored, and
\* a handle is missing
C6_Witness ==
    /\ resp = HTTPException(404,
           "No data found for this session. Please upload a CSV file first.")
    /\ sessions # <<>>
    /\ \E i \in SessionIds : ~HasSession(sessions, i) /\ ~handles[i].created

\* ------------------------------------------------------------------- C7
\* the step of query p that commits its user message
C7_UserStep(p) == pc[p] = "query_user" /\ pc'[p] = "query_agent"
\* the step of query p that ends it with the 200 response
C7_SuccessStep(p) == pc[p] # "idle" /\ pc'[p] = "idle" /\ resp'.body = "query"

\* C7: a POST /query that succeeds appends exactly two messages to its
\* session: the user message with the query text, committed before the agent
\* runs, and then the assistant message, committed after the agent returned,
\* whose content is the reply the response returns.  No other step of the
\* request changes the messages.
C7_QueryAppendsUserThenAssistant ==
    [][\A p \in Procs :
        /\ C7_UserStep(p) =>
            /\ messages' = Append(messages,
                   ChatMessage(msgIds + 1, rq[p].session_id, "user",
                               QueryText(rq[p].query)))
            /\ lv'[p].user_message = msgIds + 1
            /\ lv[p].response = EmptyText
            /\ handles' = handles
        /\ C7_SuccessStep(p) =>
            /\ pc[p] = "query_assistant"
            /\ lv[p].user_message \in 1..msgIds
            /\ resp' = QueryResponse(rq[p].session_id, rq[p].query, lv[p].response)
            /\ messages' = Append(messages,
                   ChatMessage(msgIds + 1, rq[p].session_id, "assistant",
                               resp'.response))
        /\ (pc'[p] # pc[p] /\ ~C7_UserStep(p) /\ ~C7_SuccessStep(p)) =>
            messages' = messages]_vars

\* a query has just succeeded: the two newest messages are its user message
\* and its assistant message
C7_Witness ==
    /\ resp.body = "query"
    /\ Len(messages) >= 2
    /\ messages[Len(messages) - 1] =
           ChatMessage(msgIds - 1, resp.session_id, "user", QueryText(resp.query))
    /\ messages[Len(messages)] =
           ChatMessage(msgIds, resp.session_id, "assistant", resp.response)

\* ------------------------------------------------------------------- C8
\* the step that ends query p after the agent returned its reply
C8_AfterReply(p) == pc[p] = "query_assistant" /\ pc'[p] = "idle"

\* C8 as claimed: once the agent has produced a reply, the request returns
\* that reply, whether or not the write of the assistant message succeeds.
C8_ReplyReturnedWhenWriteFails ==
    [][\A p \in Procs :
        C8_AfterReply(p) =>
            resp' = QueryResponse(rq[p].session_id, rq[p].query, lv[p].response)]_vars

\* C8, amended: once the agent has produced a reply, the request returns it
\* only together with the commit of the assistant message; if that write
\* fails the request answers 500 "Error processing query: ...", the reply is
\* not in the response and no assistant message is stored.
C8_ReplyOnlyWithAssistantMessage ==
    [][\A p \in Procs :
        C8_AfterReply(p) =>
            \/ /\ resp' = QueryResponse(rq[p].session_id, rq[p].query, lv[p].response)
               /\ messages' = Append(messages,
                      ChatMessage(msgIds + 1, rq[p].session_id, "assistant",
                                  lv[p].response))
            \/ /\ resp' = HTTPException(500, "Error processing query: commit failed")
               /\ resp'.response = EmptyText
               /\ messages' = messages]_vars

\* the write of an assistant message has just failed: 500, and the agent's
\* turn is in the conversation handle but in no stored message
C8_Witness ==
    /\ resp = HTTPException(500, "Error processing query: commit failed")
    /\ \E i \in SessionIds : handles[i].events # <<>>
    /\ \A k \in 1..Len(messages) : messages[k].message_type = "user"

\* ------------------------------------------------------------------- C9
\* the step that ends query p with an error response
C9_FailStep(p) == pc[p] # "idle" /\ pc'[p] = "idle" /\ resp'.body = "error"

\* the message with this id is stored and no assistant message of its
\* session comes after it
C9_Orphaned(ms, id) ==
    \E k \in 1..Len(ms) :
        /\ ms[k].id = id
        /\ ms[k].message_type = "user"
        /\ \A j \in (k + 1)..Len(ms) :
              ~(ms[j].session_id = ms[k].session_id /\ ms[j].message_type = "assistant")

\* C9: a POST /query that ends in an error response leaves no orphaned user
\* message: the user message it wrote is not in the transcript, or an
\* assistant turn follows it, on every failure path.
C9_NoOrphanedUserMessage ==
    [][\A p \in Procs :
        C9_FailStep(p) => ~C9_Orphaned(messages', lv[p].user_message)]_vars

\* ------------------------------------------------------------------ C10
\* the statements of query p between the commit of the user message and the
\* commit of the assistant message
C10_AgentLabels == {"query_agent", "pq_create", "pq_reget", "pq_run"}

\* C10 as claimed: no failure of the model runtime, agent construction
\* included, ends a POST /query in an error response.
C10_NoErrorFromAgent ==
    [][\A p \in Procs :
        (pc[p] \in C10_AgentLabels /\ pc'[p] = "idle") => resp'.body # "error"]_vars

\* C10, amended: process_query never raises and returns non-empty text: a
\* failure of the session lookup, the session creation or the runner leads
\* to the fallback text, with which the request goes on to write the
\* assistant turn, and which a 200 response returns.  A failure of
\* create_agent is not recovered: it ends the request in 500.
C10_ProcessQueryNeverRaises ==
    [][\A p \in Procs :
        /\ pc[p] \in {"pq_create", "pq_reget", "pq_run"} =>
              pc'[p] \in {pc[p], "pq_reget", "pq_run", "query_assistant"}
        /\ (pc[p] = "query_agent" /\ pc'[p] = "idle") =>
              resp' = HTTPException(500, "Error processing query: create_agent failed")
        /\ (pc[p] \in C10_AgentLabels /\ pc'[p] = "query_assistant") =>
              /\ lv'[p].response # EmptyText
              /\ messages' = messages
        /\ (pc[p] = "query_assistant" /\ resp'.body = "query" /\ pc'[p] = "idle") =>
              /\ resp'.response = lv[p].response
              /\ messages'[Len(messages')].content = lv[p].response]_vars

\* the runtime failed under a query whose dataset the fallback has no answer
\* for: the reply is the fallback's error text, and the request goes on
C10_Witness ==
    \E p \in Procs :
        /\ pc[p] = "query_assistant"
        /\ lv[p].response = << Line("err", "Exception", 0, <<>>) >>

\* ------------------------------------------------------------------ C11
\* query p, past its first get_session that found no handle, calls
\* create_session for an id that has a handle by now
C11_Conflict(p) ==
    /\ pc[p] = "pq_create"
    /\ handles[rq[p].session_id].created

\* C11: when two process_query calls for the same new session id both see
\* no handle before either creates one, the one whose create_session finds
\* the other's handle does not fall into the fallback: it reads the handle
\* once more, finds it, and goes on to run the agent on it; the registry
\* keeps the one handle of that id as it is.
C11_CreationConflictResolved ==
    [][\A p \in Procs :
        /\ (C11_Conflict(p) /\ pq_create_session(p)) =>
              /\ pc'[p] = "pq_reget"
              /\ handles' = handles
        /\ (pc[p] = "pq_reget" /\ pq_reget_session(p)) =>
              /\ handles[rq[p].session_id].created
              /\ pc'[p] = "pq_run"
              /\ handles' = handles]_vars

\* both queries saw no handle for the same id; one created it and is about
\* to run the agent, the other has met the conflict and reads once more
C11_Witness ==
    \E p, o \in Procs :
        /\ p # o
        /\ rq[p].session_id = rq[o].session_id
        /\ pc[p] = "pq_run"
        /\ pc[o] = "pq_reget"
        /\ handles[rq[p].session_id] = [created |-> TRUE, events |-> <<>>]

\* ------------------------------------------------------------------ C12
\* earlier is a prefix of later
C12_Prefix(earlier, later) ==
    /\ Len(earlier) <= Len(later)
    /\ SubSeq(later, 1, Len(earlier)) = earlier

\* C12: the handle of a session id moves forward only: absent, created
\* (no turns), active.  Once it exists it stays, no step replaces it or
\* removes a turn; a handle changes only by being created with no turns or
\* by gaining one user turn and one model turn, which is what every agent
\* run that completes does.
C12_HandleMovesForward ==
    [][/\ \A i \in SessionIds :
            /\ ~handles'[i].created => handles'[i] = NoHandle
            /\ handles[i].created =>
                  /\ handles'[i].created
                  /\ C12_Prefix(handles[i].events, handles'[i].events)
            /\ handles'[i] # handles[i] =>
                  \/ /\ ~handles[i].created
                     /\ handles'[i] = [created |-> TRUE, events |-> <<>>]
                  \/ /\ handles[i].created
                     /\ handles'[i].events = handles[i].events \o <<"user", "model">>
       /\ \A p \in Procs :
            (pc[p] = "pq_run" /\ \E events \in EventStreams : pq_run(p, events)) =>
                /\ handles[rq[p].session_id].created
                /\ handles'[rq[p].session_id].events =
                       handles[rq[p].session_id].events \o <<"user", "model">>]_vars

\* two agent runs have completed on the one handle of a session
C12_Witness ==
    \E i \in SessionIds :
        /\ handles[i].created
        /\ handles[i].events = <<"user", "model", "user", "model">>

\* ------------------------------------------------------------------ C13
\* the rows and columns a response reports
C13_Shape(r) == <<r.rows, r.columns>>

\* C13: the rows and columns a successful upload returns are the number of
\* data lines and the header fields of the file; GET /session/{id}/info
\* reports the rows and columns of the latest successful upload to that id:
\* a step that is a successful upload to the id sets what info reports to
\* the shape the upload returned, and no other step (queries included)
\* changes it while the session is stored.
C13_InfoReportsUploadShape ==
    [][/\ resp'.body = "upload" =>
            \E file \in ValidFiles :
                C13_Shape(resp') = <<Len(file.contents) - 1, file.contents[1]>>
       /\ \A i \in SessionIds :
            HasSession(sessions', i) =>
                C13_Shape(SessionInfoResponse(sessions', messages', i)) =
                    IF resp'.body = "upload" /\ resp'.session_id = i
                    THEN C13_Shape(resp')
                    ELSE IF HasSession(sessions, i)
                    THEN C13_Shape(SessionInfoResponse(sessions, messages, i))
                    ELSE C13_Shape(SessionInfoResponse(sessions', messages', i))
       /\ \A i \in SessionIds :
            get_session_info(i) => resp' = SessionInfoResponse(sessions, messages, i)]_vars

\* info has just reported the shape of new.csv for a session that queries
\* were run on
C13_Witness ==
    /\ resp.body = "info"
    /\ resp.filename = "new.csv"
    /\ C13_Shape(resp) = <<2, <<"Units", "Price", "sku">>>>
    /\ resp.message_count >= 1

\* ------------------------------------------------------------------ C14
\* the detail of the 400 each kind of bad file is refused with
C14_Refusal(file) ==
    IF file.filename = "" THEN "No file provided"
    ELSE IF file.filename = "data.txt" THEN "File must be a CSV"
    ELSE IF file.contents = CsvEmpty THEN "File is empty"
    ELSE IF file.contents = CsvRagged THEN "Invalid CSV file"
    ELSE "CSV file contains no data"

\* C14: POST /upload answers 400 when the filename is missing, does not end
\* in '.csv', the content is empty, the content is not parseable as CSV, or
\* the parsed dataset has no rows; no session is created or changed by it,
\* whether no id, a new id or the id of a stored session was supplied.
C14_BadUploadRefused ==
    [][\A file \in InvalidFiles, i \in SessionIds \cup {NoId} :
        (resp'.body \in {"error", "upload"} /\ upload_file(file.filename, file.contents, i)) =>
            /\ resp' = HTTPException(400, C14_Refusal(file))
            /\ UNCHANGED <<sessions, messages, msgIds, handles>>]_vars

\* a header-only file has just been refused while a session is stored
C14_Witness ==
    /\ resp = HTTPException(400, "CSV file contains no data")
    /\ sessions # <<>>

\* ------------------------------------------------------------------ C15
\* the dataset stored for session i
C15_Dataset(ss, i) == deserialize_dataframe(SessionRow(ss, i).csv_data)

\* serialize then deserialize gives the parsed dataset back, for the
\* datasets of the files that can be uploaded
C15_RoundTrip ==
    \A file \in ValidFiles :
        deserialize_dataframe(serialize_dataframe(read_csv(file.contents)))
            = read_csv(file.contents)

ToolEvents ==
    UNION {{handles[i].events[k] : k \in 1..Len(handles[i].events)} : i \in SessionIds}

\* C16: every call of a tool, whatever its arguments, returns: it never
\* raises.  What it returns is an envelope, a dict whose status is 'success'
\* or 'error', and an envelope of a failure (status 'error') carries an
\* error_message: a call whose code raised inside is reported in this way.
C16_ToolsReturnEnvelopes ==
    \A e \in ToolEvents :
        /\ ~e.raised
        /\ "status" \in DOMAIN e.response
        /\ e.response.status \in {"success", "error"}
        /\ e.response.status = "error" => "error_message" \in DOMAIN e.response

\* calculate_mean of a column the dataset does not have: the KeyError of
\* df[column] comes back as an error envelope
C16_Witness ==
    \E e \in ToolEvents :
        /\ e.call.tool = "calculate_mean"
        /\ e.call.column = "price"
        /\ ~e.raised
        /\ e.response.status = "error"

\* ------------------------------------------------------------------ C17
\* the keys of an envelope
C17_Keys(e) == DOMAIN e.response

\* C17 as the spec states it: every envelope has a message, a success
\* envelope has a result, an error envelope has an error_message
C17_MessageInEveryEnvelope ==
    \A e \in ToolEvents :
        /\ "status" \in C17_Keys(e)
        /\ "message" \in C17_Keys(e)
        /\ e.response.status = "success" => "result" \in C17_Keys(e)
        /\ e.response.status = "error" => "error_message" \in C17_Keys(e)

\* C17, as the code has it: every envelope has a status.  A success envelope
\* has a message and no error_message, and it has a result unless the tool is
\* get_available_capabilities; an error envelope has an error_message, and
\* neither a message nor a result.
C17_EnvelopeShape ==
    \A e \in ToolEvents :
        /\ "status" \in C17_Keys(e)
        /\ e.response.status = "success" =>
                /\ "message" \in C17_Keys(e)
                /\ "error_message" \notin C17_Keys(e)
                /\ "result" \in C17_Keys(e) <=> e.call.tool # "get_available_capabilities"
        /\ e.response.status = "error" =>
                /\ "error_message" \in C17_Keys(e)
                /\ "message" \notin C17_Keys(e)
                /\ "result" \notin C17_Keys(e)

\* filter_and_aggregate for a name no row has: an error envelope whose keys
\* are status and error_message
C17_Witness ==
    \E e \in ToolEvents :
        /\ e.call.tool = "filter_and_aggregate"
        /\ e.call.value = StrArg("Nobody")
        /\ C17_Keys(e) = {"status", "error_message"}

\* ------------------------------------------------------------------ C18
\* the dataset the tools of the run on session i are made for
RunDataset(i) == deserialize_dataframe(SessionRow(sessions, i).csv_data)

\* the tools that take a column
C18_ExactTools ==
    {"calculate_mean", "calculate_median", "sum_column", "filter_by_date_range",
     "filter_and_aggregate"}

\* the call e names, as its first column, one the dataset df does not have
C18_Missing(df, e) ==
    \/ e.call.tool \in C18_ExactTools /\ ~HasColumn(df, e.call.column)
    \/ e.call.tool = "group_by_and_aggregate" /\ ActualColumn(df, e.call.column) = 0

\* the envelope is an error whose text names column
C18_Names(e, column) ==
    /\ e.response.status = "error"
    /\ e.response.error_message.a = column

\* C18: a tool called with a column the dataset does not have returns an
\* error envelope whose text names the column and lists the columns of the
\* dataset.  (Only group_by_and_aggregate, agent.py:221-231, does; the other
\* tools return the quoted key of the KeyError and no columns.)
C18_MissingColumnListsColumns ==
    \A i \in SessionIds : \A k \in 1..Len(handles[i].events) :
        LET e == handles[i].events[k] IN
        C18_Missing(RunDataset(i), e) =>
            /\ C18_Names(e, e.call.column)
            /\ e.response.error_message.l = RunDataset(i).columns

\* ------------------------------------------------------------------ C19
\* the ids of the items of a list response, in the order of the list
C19_Ids(r) == [k \in 1..Len(r.items) |-> r.items[k].id]
\* message ids are issued in the order the rows are created
C19_Ascending(ids) == \A a, b \in 1..Len(ids) : a < b => ids[a] < ids[b]
\* what GET /session/{id}/messages and GET /sessions would list after the step
C19_MessageList(i) == ChatMessagesResponse(sessions', messages', i).items
C19_SessionList == C19_Ids(SessionsResponse(sessions', messages'))

\* C19: GET /session/{id}/messages lists the messages of the session in the
\* order they were created.  The user message a query commits is listed
\* after every message the session already has, and the assistant message of
\* a query that succeeds is listed last, after the user message of the query
\* wherever that is listed: so the turns of a query completed earlier come
\* before the turns of a later one.  GET /sessions lists the sessions newest
\* first: an upload that creates a session puts it at the head of the list,
\* an upload to an id that has a session leaves the list order as it is, and
\* so does every step that is not an upload or a delete.
C19_ReadsInCreationOrder ==
    [][/\ resp'.body = "messages" => C19_Ascending(C19_Ids(resp'))
       /\ \A p \in Procs :
            /\ C7_UserStep(p) =>
                 LET items == C19_MessageList(rq[p].session_id) IN
                 /\ items[Len(items)].id = msgIds + 1
                 /\ items[Len(items)].message_type = "user"
                 /\ C19_Ascending([k \in 1..Len(items) |-> items[k].id])
            /\ C7_SuccessStep(p) =>
                 LET items == C19_MessageList(rq[p].session_id) IN
                 /\ items[Len(items)].id = msgIds + 1
                 /\ items[Len(items)].message_type = "assistant"
                 /\ \A k \in 1..Len(items) :
                        items[k].id = lv[p].user_message => k < Len(items)
                 /\ C19_Ascending([k \in 1..Len(items) |-> items[k].id])
       /\ resp'.body = "upload" =>
            C19_SessionList =
                IF HasSession(sessions, resp'.session_id)
                THEN C19_Ids(SessionsResponse(sessions, messages))
                ELSE <<resp'.session_id>> \o C19_Ids(SessionsResponse(sessions, messages))
       /\ resp'.body \notin {"upload", "deleted"} =>
            C19_SessionList = C19_Ids(SessionsResponse(sessions, messages))
       /\ resp'.body = "sessions" => C19_Ids(resp') = C19_SessionList]_vars

\* the list of a session that had a completed query before a later query
\* completed: the two turns of the earlier query, then the two of the later
C19_Witness ==
    /\ resp.body = "messages"
    /\ Len(resp.items) = 4
    /\ [k \in 1..4 |-> resp.items[k].message_type] =
           <<"user", "assistant", "user", "assistant">>
    /\ C19_Ids(resp) = <<-1, 0, 1, 2>>

\* ------------------------------------------------------------------ C20
\* the rows of df whose cell in column is equal to value, as a set
C20_Matching(df, column, value) ==
    {r \in 1..Len(df.data) :
        LET cell == df.data[r][ColumnOf(df, column)] IN
        IF value.isnum THEN cell.isnum /\ cell.n = value.n
        ELSE ~cell.isnum /\ cell.s = value.s}

RECURSIVE C20_Sum(_, _, _)
C20_Sum(df, c, rows) ==
    IF rows = {} THEN 0
    ELSE LET r == CHOOSE x \in rows : TRUE
         IN  df.data[r][c].n + C20_Sum(df, c, rows \ {r})

\* the float v is the aggregation of column c over rows
C20_IsAggregate(v, df, c, rows, aggregation) ==
    LET values == {df.data[r][c].n : r \in rows} IN
    CASE aggregation = "sum" -> v.num = v.den * C20_Sum(df, c, rows)
      [] aggregation = "mean" -> v.num * Cardinality(rows) = v.den * C20_Sum(df, c, rows)
      [] aggregation = "count" -> v.num = v.den * Cardinality(rows)
      [] aggregation = "max" ->
            \E m \in values : v.num = v.den * m /\ \A x \in values : x <= m
      [] aggregation = "min" ->
            \E m \in values : v.num = v.den * m /\ \A x \in values : m <= x

\* the calls of filter_and_aggregate on a filter column the dataset has
C20_Calls ==
    {<<i, k>> \in SessionIds \X (1..MaxToolCalls) :
        /\ k <= Len(handles[i].events)
        /\ handles[i].events[k].call.tool = "filter_and_aggregate"
        /\ HasColumn(RunDataset(i), handles[i].events[k].call.column)}

C21_Resolves(df, name) == {c \in 1..Len(df.columns) : Lower(df.columns[c]) = Lower(name)}

\* the calls of group_by_and_aggregate
C21_Calls ==
    {<<i, k>> \in SessionIds \X (1..MaxToolCalls) :
        /\ k <= Len(handles[i].events)
        /\ handles[i].events[k].call.tool = "group_by_and_aggregate"}

\* the values of column c of df, the missing ones left out
C21_Values(df, c) == {df.data[r][c] : r \in 1..Len(df.data)} \ {NaN}
\* the rows of the group of value g
C21_Rows(df, c, g) == {r \in 1..Len(df.data) : df.data[r][c] = g}
\* every cell of column c in rows is a finite number
C21_AllFinite(df, c, rows) ==
    \A r \in rows : df.data[r][c].isnum /\ df.data[r][c].s = ""

C22_IsFinite(v) == v.den # 0

\* C22: in a success envelope of group_by_and_aggregate no aggregated value
\* is nan or infinite, neither in the raw result mapping nor in the
\* grouped_data records: a group whose aggregate is not a finite number is
\* reported as zero in both.
C22_NonFiniteReportedAsZero ==
    \A ik \in C21_Calls :
        LET e == handles[ik[1]].events[ik[2]] IN
        e.response.status = "success" =>
            /\ \A g \in DOMAIN e.response.result : C22_IsFinite(e.response.result[g])
            /\ \A n \in 1..Len(e.response.grouped_data) :
                  C22_IsFinite(e.response.grouped_data[n].value)

\* ------------------------------------------------------------------ C23
\* the texts an event carries, in any of the shapes
C23_PartTexts(parts) ==
    [i \in 1..Len(parts) |-> IF parts[i].has_text THEN parts[i].text ELSE EmptyText]
C23_Fragments(event) ==
    (IF "text" \in event.attrs THEN <<event.text>> ELSE <<>>)
    \o (IF "content" \in event.attrs
        THEN <<event.content.text>> \o C23_PartTexts(event.content.parts) ELSE <<>>)
    \o (IF "message" \in event.attrs THEN <<event.message.text>> ELSE <<>>)

\* the texts of the events of a stream that are not empty, in stream order
RECURSIVE C23_AllTexts(_)
C23_AllTexts(events) ==
    IF events = <<>> THEN <<>>
    ELSE SelectSeq(C23_Fragments(Head(events)), LAMBDA t : t # EmptyText)
         \o C23_AllTexts(Tail(events))

\* C23: when the run of the agent ends without an error, the reply of
\* process_query is the texts of all the events that carry text, in any of
\* the shapes and in stream order, joined by newlines, none left out; it is
\* the fixed "couldn't generate a response" message when no event carries
\* text.
C23_ReplyJoinsAllText ==
    \A p \in Procs :
        pc[p] = "query_assistant" =>
            LET texts == C23_AllTexts(handles[rq[p].session_id].events) IN
            lv[p].response = IF texts = <<>> THEN CouldNotGenerate ELSE JoinLines(texts)

\* ------------------------------------------------------------------ C24
\* the lines of a reply of kind k
C24_Lines(reply, k) == {i \in 1..Len(reply) : reply[i].k = k}
\* the numeric columns of df named name
C24_Numeric(df, name) ==
    {c \in 1..Len(df.columns) :
        df.columns[c] = name /\ df.dtypes[c] \in {"int64", "float64"}}
C24_OnlyNumeric(df) ==
    Cardinality({c \in 1..Len(df.columns) : df.dtypes[c] \in {"int64", "float64"}}) = 1
\* the column is named in the query, or is the only numeric column
C24_Named(q, df, name) == InQuery(Lower(name), q) \/ C24_OnlyNumeric(df)

\* C24 without what it says of the sum/total answers: the reply of the
\* fallback is a mean answer, a sum answer, the column list or the generic
\* error; the column list is the reply when there is no mean or sum answer
\* and the query mentions 'column', the generic error with the failure
\* detail when it does not; a mean answer is for a query with mean or
\* average and reports numeric columns that are named in the query or are
\* the only numeric column
C24_Replies(p, sum_condition(_, _, _)) ==
    LET reply == lv[p].response
        q == rq[p].query
        df == lv[p].df
        means == C24_Lines(reply, "mean")
        sums == C24_Lines(reply, "sum")
    IN  /\ reply # <<>>
        /\ means # {} =>
              /\ means = 1..Len(reply)
              /\ InQuery("mean", q) \/ InQuery("average", q)
              /\ \A i \in means : /\ C24_Numeric(df, reply[i].a) # {}
                                   /\ C24_Named(q, df, reply[i].a)
        /\ sums # {} =>
              /\ sums = 1..Len(reply)
              /\ InQuery("sum", q) \/ InQuery("total", q)
              /\ \A i \in sums : /\ C24_Numeric(df, reply[i].a) # {}
                                  /\ sum_condition(q, df, reply[i].a)
        /\ (means = {} /\ sums = {}) =>
              reply = IF InQuery("column", q)
                      THEN << Line("cols", "", Len(df.columns), df.columns) >>
                      ELSE << Line("err", "Exception", 0, <<>>) >>

\* C24 as the spec states it: when process_query falls back after a
\* failure, a mean/average or sum/total answer reports a numeric column only
\* if its name appears in the query or it is the only numeric column; with
\* no such answer the reply is the column list if the query mentions
\* 'column', else the generic error with the failure detail
C24_ReportsOnlyNamedColumns ==
    \A p \in Procs : pc[p] = "query_assistant" => C24_Replies(p, C24_Named)

\* the column is named, or the query has 'sales' or 'revenue' in it
C24_NamedOrSales(q, df, name) ==
    C24_Named(q, df, name) \/ InQuery("sales", q) \/ InQuery("revenue", q)

\* C24, as the code has it: a mean/average answer reports a numeric column
\* only if its name appears in the query or it is the only numeric column;
\* a sum/total answer reports a numeric column only if its name appears in
\* the query, the query contains 'sales' or 'revenue', or it is the only
\* numeric column; with no such answer the reply is the column list if the
\* query mentions 'column', else the generic error with the failure detail
C24_FallbackReplies ==
    \A p \in Procs : pc[p] = "query_assistant" => C24_Replies(p, C24_NamedOrSales)

\* a total of revenue asked of a dataset with the numeric columns Units and
\* Price: the fallback reports the sums of both, neither named in the query
C24_Witness ==
    \E p \in Procs :
        /\ pc[p] = "query_assistant"
        /\ InQuery("revenue", rq[p].query)
        /\ Len(lv[p].response) = 2
        /\ \A i \in 1..2 : /\ lv[p].response[i].k = "sum"
                             /\ ~C24_Named(rq[p].query, lv[p].df, lv[p].response[i].a)

\* ------------------------------------------------------------------ C25
\* the stored messages of session sid with the given role
C25_Count(sid, role) ==
    Len(SelectSeq(messages, LAMBDA m : m.session_id = sid /\ m.message_type = role))

\* C25: in every reachable state every stored message has the role 'user'
\* or 'assistant', and no session has more stored assistant messages than
\* stored user messages: an assistant turn is not stored without its user
\* turn.
C25_AssistantNeverWithoutUser ==
    /\ \A k \in 1..Len(messages) : messages[k].message_type \in {"user", "assistant"}
    /\ \A sid \in SessionIds : C25_Count(sid, "assistant") <= C25_Count(sid, "user")

\* ------------------------------------------------------------------ C26
\* a step of DELETE /session/{id} or POST /upload that took effect: it
\* answers so, or the stored sessions change
C26_DeleteOrUpload == resp'.body \in {"deleted", "upload"} \/ sessions' # sessions

\* the step in which the query in slot p looks its conversation handle up
C26_Lookup(p) == pc[p] = "query_agent" /\ pc'[p] \in {"pq_create", "pq_run"}

\* C26: DELETE /session/{id} and POST /upload leave the registry of
\* conversation handles as it is: a delete removes the stored dataset and
\* transcript of the session and not its handle.  A query that looks up a
\* handle that exists, as the first query after a delete and a new upload
\* under the same id does, goes on to the run with that handle and its
\* turns and creates none.
C26_RegistryKept ==
    [][ /\ C26_DeleteOrUpload => handles' = handles
        /\ \A p \in Procs :
              (C26_Lookup(p) /\ handles[rq[p].session_id].created) =>
                  /\ pc'[p] = "pq_run"
                  /\ handles' = handles ]_vars

\* a query about to run on a handle that has the turns of an earlier query
\* while the transcript of its session has this query's message alone: the
\* session was deleted and uploaded again in between
C26_Witness ==
    \E p \in Procs :
        LET sid == rq[p].session_id IN
        /\ pc[p] = "pq_run"
        /\ handles[sid].created
        /\ handles[sid].events # <<>>
        /\ HasSession(sessions, sid)
        /\ Len(MessagesOf(messages, sid)) = 1
        /\ MessagesOf(messages, sid)[1].id = msgIds
        /\ msgIds = 2

====
